---- MODULE Spec2Model ----
(***************************************************************************)
(* Gitgres: a Git object database and reference database stored in         *)
(* PostgreSQL (libgit2 odb/refdb backends, SQL functions, remote helper).  *)
(*                                                                         *)
(* The database is modelled at statement level under READ COMMITTED:       *)
(* every session has a transaction state (idle / active / aborted), its    *)
(* uncommitted writes, the row locks and the advisory locks it holds.      *)
(* Every backend handler is a small program over these statements; the     *)
(* sequential specifications run a handler to completion in one action,    *)
(* the concurrent ones interleave the statements of two sessions.          *)
(***************************************************************************)
EXTENDS Integers, Sequences, FiniteSets, Bags, TLC

(* ---------------------------------------------------------------------- *)
(* Bounds                                                                  *)
(* ---------------------------------------------------------------------- *)
MaxOid == 1
MaxLog == 1
MaxObj == 2
MaxPush == 1
MaxIn == 2
MaxName == 2
MaxGlob == 2
MaxRows == 2
MaxHex == 2
MaxTree == 2

(* ---------------------------------------------------------------------- *)
(* Program constants                                                       *)
(* ---------------------------------------------------------------------- *)
GIT_OK == 0
GIT_ERROR == -1
GIT_ENOTFOUND == -3
GIT_EEXISTS == -4
GIT_EAMBIGUOUS == -5
GIT_OID_SHA1_SIZE == 20
GIT_OID_SHA1_HEXSIZE == 40

NullOid == -9
ZeroOid == 0
NullText == "<NULL>"

Oids == ZeroOid..MaxOid
RefNames == {"HEAD", "refs/heads/main"}
(* a third name, written only through the remote helper                    *)
AllRefNames == RefNames \cup {"refs/heads/dev"}
RepoIds == {1, 2}
Sessions == {"s1", "s2"}
Keys == RepoIds \X AllRefNames

VARIABLES refs, reflog, logseq, tx, tokens, ses, objects, ocall, helper, fcall

vars == <<refs, reflog, logseq, tx, tokens, ses, objects, ocall, helper, fcall>>

(* ---------------------------------------------------------------------- *)
(* Rows of table refs                                                      *)
(* ---------------------------------------------------------------------- *)
NoRow == [ex |-> FALSE, oid |-> NullOid, symbolic |-> NullText]
MkRow(o, t) == [ex |-> TRUE, oid |-> o, symbolic |-> t]
DirectRow(o) == MkRow(o, NullText)
SymRow(t) == MkRow(NullOid, t)

RefsCheck_off(row) == TRUE
RefsCheck(row) == (row.oid # NullOid) # (row.symbolic # NullText)

IdleTx == [st |-> "idle", dirty |-> {}, wrefs |-> [k \in Keys |-> NoRow],
           locks |-> {}, adv |-> {}, ins |-> EmptyBag, del |-> EmptyBag,
           pRef |-> FALSE, pLog |-> FALSE]

IdleSes == [pc |-> "idle", op |-> "none", rc |-> GIT_OK, repo |-> 1,
            name |-> "HEAD", name2 |-> "HEAD", force |-> FALSE,
            old |-> NullOid, oldt |-> NullText, who |-> FALSE,
            val |-> NoRow, fail |-> "none", success |-> 0, upd |-> FALSE,
            out |-> NoRow, cRef |-> FALSE, cLog |-> FALSE, ov |-> {},
            specs |-> <<>>, local |-> {}, lines |-> <<>>]

(* The remote helper before its loop starts: pc is the place of the        *)
(* process in main, cmd_fetch or cmd_push, local the object store of the   *)
(* repository at GIT_DIR, block the push lines read in the open block and  *)
(* resp the lines printed for the last command.  Ghosts: eof (fgets has    *)
(* returned NULL), nin and nout (lines read and printed so far), blocks    *)
(* and works (blocks opened, block works run), before (the backend's      *)
(* objects of the repository and the local objects when the block opened)  *)
(* and asked (the oids fetch_copy_cb went on to read and write).           *)
IdleHelper == [pc |-> "START", repo |-> 1, local |-> {}, fail |-> "none",
               line |-> "none", block |-> <<>>, resp |-> <<>>, eof |-> FALSE,
               nin |-> 0, nout |-> 0, blocks |-> 0, works |-> 0,
               before |-> {}, had |-> {}, asked |-> {}]

(* the last call to the object store and its result                       *)
IdleObj == [op |-> "none", repo |-> 1, oid |-> NullOid, type |-> 0, content |-> <<>>,
            pack |-> {}, rc |-> GIT_OK, out |-> NullOid, had |-> FALSE,
            n |-> 0, size |-> 0]

(* the last call of a function that keeps nothing in the tables (ref       *)
(* iterator, OID codec, tree parser, hasher, writepack), with its          *)
(* arguments and its result                                                *)
IdleCall == [op |-> "none"]

(* The database and the sessions as one value, so that a handler is a      *)
(* function from worlds to worlds.                                         *)
World == [refs |-> refs, reflog |-> reflog, logseq |-> logseq, tx |-> tx,
          tokens |-> tokens, ses |-> ses, objects |-> objects, ocall |-> ocall,
          helper |-> helper, fcall |-> fcall]

SetWorld(w) ==
    /\ refs' = w.refs
    /\ reflog' = w.reflog
    /\ logseq' = w.logseq
    /\ tx' = w.tx
    /\ tokens' = w.tokens
    /\ ses' = w.ses
    /\ objects' = w.objects
    /\ ocall' = w.ocall
    /\ helper' = w.helper
    /\ fcall' = w.fcall

(* ---------------------------------------------------------------------- *)
(* PostgreSQL statements                                                   *)
(* ---------------------------------------------------------------------- *)
InTxn(w, s) == w.tx[s].st = "active"

OthersLock(w, s, k) == \E t \in Sessions \ {s} : k \in w.tx[t].locks

(* A statement that reads or changes an existing row waits for the         *)
(* transaction that has locked it; a row inserted by an uncommitted        *)
(* transaction is invisible and does not block.                            *)
BlocksOnRow(w, s, k) == OthersLock(w, s, k) /\ w.refs[k].ex

(* An insert waits for any transaction that has touched the key.           *)
BlocksOnKey(w, s, k) == OthersLock(w, s, k)

RefView(w, s, k) ==
    IF k \in w.tx[s].dirty THEN w.tx[s].wrefs[k] ELSE w.refs[k]

StmtError(w, s) ==
    IF InTxn(w, s) THEN [w EXCEPT !.tx[s].st = "aborted"] ELSE w

Res(w, ok, row) == [w |-> w, ok |-> ok, row |-> row]

Failing(w, s, inj) == inj \/ w.tx[s].st = "aborted"

PgBegin(w, s, inj) ==
    IF Failing(w, s, inj) THEN Res(StmtError(w, s), FALSE, NoRow)
    ELSE IF w.tx[s].st = "idle"
         THEN Res([w EXCEPT !.tx[s].st = "active"], TRUE, NoRow)
         ELSE Res(w, TRUE, NoRow)

(* The reflog is a bag of rows: the serial id only orders the rows and is  *)
(* left out.  A transaction sees the committed rows minus those it has     *)
(* deleted plus those it has inserted (a renamed row is deleted and        *)
(* inserted under its new name).                                           *)
LogView(w, s) == (w.reflog (-) w.tx[s].del) (+) w.tx[s].ins

PgRollback_keep(w, s) ==
    [w EXCEPT !.refs = [k \in Keys |-> IF k \in w.tx[s].dirty THEN w.tx[s].wrefs[k]
                                       ELSE w.refs[k]],
              !.tx[s] = IdleTx]
PgRollback(w, s) == [w EXCEPT !.tx[s] = IdleTx]

PgCommit(w, s, inj) ==
    LET t == w.tx[s] IN
    IF t.st = "idle" THEN Res(w, ~inj, NoRow)
    ELSE IF t.st = "aborted" THEN Res(PgRollback(w, s), ~inj, NoRow)
    ELSE IF inj THEN Res(PgRollback(w, s), FALSE, NoRow)
    ELSE Res([w EXCEPT !.refs = [k \in Keys |->
                                   IF k \in t.dirty THEN t.wrefs[k] ELSE w.refs[k]],
                       !.reflog = LogView(w, s),
                       !.tx[s] = IdleTx,
                       !.ses[s].cRef = @ \/ t.pRef,
                       !.ses[s].cLog = @ \/ t.pLog],
             TRUE, NoRow)

SetRef(w, s, k, row) ==
    IF InTxn(w, s)
    THEN [w EXCEPT !.tx[s].wrefs[k] = row,
                   !.tx[s].dirty = @ \cup {k},
                   !.tx[s].locks = @ \cup {k}]
    ELSE [w EXCEPT !.refs[k] = row]

PgSelect(w, s, k, inj) ==
    IF Failing(w, s, inj) THEN Res(StmtError(w, s), FALSE, NoRow)
    ELSE Res(w, TRUE, RefView(w, s, k))

PgSelectForUpdate_nolock(w, s, k, inj) ==
    IF Failing(w, s, inj) THEN Res(StmtError(w, s), FALSE, NoRow)
    ELSE Res(w, TRUE, RefView(w, s, k))
PgSelectForUpdate(w, s, k, inj) ==
    IF Failing(w, s, inj) THEN Res(StmtError(w, s), FALSE, NoRow)
    ELSE LET row == RefView(w, s, k) IN
         IF row.ex /\ InTxn(w, s)
         THEN Res([w EXCEPT !.tx[s].locks = @ \cup {k}], TRUE, row)
         ELSE Res(w, TRUE, row)

(* INSERT ... VALUES ins ON CONFLICT (repo_id, name) DO UPDATE SET set:    *)
(* a column the SET clause does not name keeps its value; the CHECK of     *)
(* table refs is evaluated on the resulting row                            *)
KeepOid == -8
KeepText == "<KEEP>"

SetColumns(cur, set) ==
    [ex |-> TRUE,
     oid |-> IF set.oid = KeepOid THEN cur.oid ELSE set.oid,
     symbolic |-> IF set.symbolic = KeepText THEN cur.symbolic ELSE set.symbolic]

PgUpsertRef(w, s, k, ins, set, inj) ==
    LET cur == RefView(w, s, k)
        row == IF cur.ex THEN SetColumns(cur, set) ELSE ins
    IN  IF Failing(w, s, inj) \/ ~RefsCheck(row)
        THEN Res(StmtError(w, s), FALSE, NoRow)
        ELSE Res(SetRef(w, s, k, row), TRUE, row)

(* INSERT ... ON CONFLICT (repo_id, name) DO NOTHING                       *)
PgInsertRefIgnore(w, s, k, row, inj) ==
    IF Failing(w, s, inj) THEN Res(StmtError(w, s), FALSE, NoRow)
    ELSE IF RefView(w, s, k).ex THEN Res(w, TRUE, NoRow)
    ELSE IF ~RefsCheck(row) THEN Res(StmtError(w, s), FALSE, NoRow)
    ELSE Res(SetRef(w, s, k, row), TRUE, row)

(* plain INSERT: a duplicate key or a violated CHECK is an error           *)
PgInsertRef(w, s, k, row, inj) ==
    IF Failing(w, s, inj) \/ RefView(w, s, k).ex \/ ~RefsCheck(row)
    THEN Res(StmtError(w, s), FALSE, NoRow)
    ELSE Res(SetRef(w, s, k, row), TRUE, row)

(* UPDATE refs SET set WHERE key                                           *)
PgUpdateRef(w, s, k, set, inj) ==
    LET cur == RefView(w, s, k)
        row == SetColumns(cur, set)
    IN  IF Failing(w, s, inj) THEN Res(StmtError(w, s), FALSE, NoRow)
        ELSE IF ~cur.ex THEN Res(w, TRUE, NoRow)
        ELSE IF ~RefsCheck(row) THEN Res(StmtError(w, s), FALSE, NoRow)
        ELSE Res(SetRef(w, s, k, row), TRUE, row)

(* DELETE FROM refs WHERE key; row.ex tells whether a row was deleted      *)
PgDeleteRef(w, s, k, inj) ==
    IF Failing(w, s, inj) THEN Res(StmtError(w, s), FALSE, NoRow)
    ELSE LET row == RefView(w, s, k) IN
         IF row.ex THEN Res(SetRef(w, s, k, NoRow), TRUE, row)
         ELSE Res(w, TRUE, NoRow)

(* UPDATE refs SET name = new WHERE name = old; the primary key rejects    *)
(* a new name that is already present                                      *)
PgRenameRef(w, s, kold, knew, inj) ==
    IF Failing(w, s, inj) THEN Res(StmtError(w, s), FALSE, NoRow)
    ELSE LET row == RefView(w, s, kold) IN
         IF ~row.ex THEN Res(w, TRUE, NoRow)
         ELSE IF kold = knew THEN Res(SetRef(w, s, kold, row), TRUE, row)
         ELSE IF RefView(w, s, knew).ex THEN Res(StmtError(w, s), FALSE, NoRow)
         ELSE Res(SetRef(SetRef(w, s, kold, NoRow), s, knew, row), TRUE, row)

LogRow(rid, name, old, new) ==
    [repo_id |-> rid, ref_name |-> name, old_oid |-> old, new_oid |-> new]

One(row) == SetToBag({row})

(* INSERT INTO reflog                                                      *)
PgInsertReflog(w, s, rid, name, old, new, inj) ==
    IF Failing(w, s, inj) THEN Res(StmtError(w, s), FALSE, NoRow)
    ELSE LET row == LogRow(rid, name, old, new) IN
         IF InTxn(w, s)
         THEN Res([w EXCEPT !.tx[s].ins = @ (+) One(row)], TRUE, NoRow)
         ELSE Res([w EXCEPT !.reflog = @ (+) One(row)], TRUE, NoRow)

(* the rows of a bag that belong to (repo_id, ref_name), as a bag          *)
RowsOf(log, rid, name) ==
    LET rows == {r \in BagToSet(log) : r.repo_id = rid /\ r.ref_name = name}
    IN  [r \in rows |-> log[r]]

RECURSIVE Renamed(_, _)
Renamed(rows, new) ==
    IF rows = EmptyBag THEN EmptyBag
    ELSE LET r == CHOOSE x \in BagToSet(rows) : TRUE
             rest == [x \in BagToSet(rows) \ {r} |-> rows[x]]
             moved == [r EXCEPT !.ref_name = new]
         IN  [x \in {moved} |-> rows[r]] (+) Renamed(rest, new)

(* DELETE FROM reflog WHERE repo_id = AND ref_name =                       *)
PgDeleteReflog(w, s, rid, name, inj) ==
    IF Failing(w, s, inj) THEN Res(StmtError(w, s), FALSE, NoRow)
    ELSE IF InTxn(w, s)
         THEN LET t == w.tx[s]
                  mine == RowsOf(t.ins, rid, name)
                  theirs == RowsOf(w.reflog (-) t.del, rid, name)
              IN  Res([w EXCEPT !.tx[s].ins = @ (-) mine,
                                !.tx[s].del = @ (+) theirs], TRUE, NoRow)
         ELSE Res([w EXCEPT !.reflog = @ (-) RowsOf(@, rid, name)], TRUE, NoRow)

(* UPDATE reflog SET ref_name = new WHERE repo_id = AND ref_name = old     *)
PgRenameReflog(w, s, rid, old, new, inj) ==
    IF Failing(w, s, inj) THEN Res(StmtError(w, s), FALSE, NoRow)
    ELSE IF InTxn(w, s)
         THEN LET t == w.tx[s]
                  mine == RowsOf(t.ins, rid, old)
                  theirs == RowsOf(w.reflog (-) t.del, rid, old)
              IN  Res([w EXCEPT !.tx[s].ins =
                                   (@ (-) mine) (+) Renamed(mine (+) theirs, new),
                                !.tx[s].del = @ (+) theirs], TRUE, NoRow)
         ELSE LET rows == RowsOf(w.reflog, rid, old) IN
              Res([w EXCEPT !.reflog = (@ (-) rows) (+) Renamed(rows, new)],
                  TRUE, NoRow)

(* SELECT pg_advisory_xact_lock(key): held until the transaction ends      *)
AdvBlocked(w, s, key) == \E t \in Sessions \ {s} : key \in w.tx[t].adv

PgAdvisoryXactLock(w, s, key, inj) ==
    IF Failing(w, s, inj) THEN Res(StmtError(w, s), FALSE, NoRow)
    ELSE IF InTxn(w, s)
         THEN Res([w EXCEPT !.tx[s].adv = @ \cup {key}], TRUE, NoRow)
         ELSE Res(w, TRUE, NoRow)

(* ---------------------------------------------------------------------- *)
(* Handler plumbing                                                        *)
(* ---------------------------------------------------------------------- *)
Ret(w, s, rc) == [w EXCEPT !.ses[s].pc = "ret", !.ses[s].rc = rc]
Goto(w, s, pc) == [w EXCEPT !.ses[s].pc = pc]
Inj(w, s) == w.ses[s].fail = w.ses[s].pc

(* ghost: has the ref change / the reflog row of the running call been     *)
(* committed (cRef, cLog) or is it pending in the open transaction         *)
MarkRef(w0, w, s) ==
    IF InTxn(w0, s) THEN [w EXCEPT !.tx[s].pRef = TRUE]
    ELSE [w EXCEPT !.ses[s].cRef = TRUE]
MarkLog(w0, w, s) ==
    IF InTxn(w0, s) THEN [w EXCEPT !.tx[s].pLog = TRUE]
    ELSE [w EXCEPT !.ses[s].cLog = TRUE]

(* write_reflog_entry binds NULL for a null pointer and for the zero OID   *)
ReflogOid(o) == IF o = NullOid \/ o = ZeroOid THEN NullOid ELSE o

(* new_oid of the reflog row: the target of a direct ref, else NULL        *)
NewOidOf(row) == IF row.oid # NullOid THEN row.oid ELSE NullOid

write_reflog_entry(w, s, rid, name, old, new) ==
    PgInsertReflog(w, s, rid, name, ReflogOid(old), ReflogOid(new), Inj(w, s))

(* SET clause of the backend's upserts: "SET oid = EXCLUDED.oid, symbolic  *)
(* = NULL" for a direct ref, "SET oid = NULL, symbolic = EXCLUDED.symbolic"*)
(* for a symbolic one                                                      *)
UpsertSet_keep(val) ==
    IF val.oid # NullOid
    THEN [oid |-> val.oid, symbolic |-> KeepText]
    ELSE [oid |-> KeepOid, symbolic |-> val.symbolic]
UpsertSet(val) ==
    IF val.oid # NullOid
    THEN [oid |-> val.oid, symbolic |-> NullText]
    ELSE [oid |-> NullOid, symbolic |-> val.symbolic]

(* ---------------------------------------------------------------------- *)
(* pg_refdb_write                                                          *)
(* ---------------------------------------------------------------------- *)
(* "if (old || old_target)": the ref must exist and hold the expected value *)
CasCheck_exists(c, row) == IF ~row.ex THEN GIT_ENOTFOUND ELSE GIT_OK
CasCheck(c, row) ==
    IF ~row.ex THEN GIT_ENOTFOUND
    ELSE IF c.old # NullOid /\ row.oid = NullOid THEN GIT_ERROR
    ELSE IF c.old # NullOid /\ row.oid # c.old THEN GIT_EEXISTS
    ELSE IF c.oldt # NullText /\ row.symbolic = NullText THEN GIT_ERROR
    ELSE IF c.oldt # NullText /\ row.symbolic # c.oldt THEN GIT_EEXISTS
    ELSE GIT_OK

(* "else": neither old nor old_target, the ref must not exist              *)
CreateCheck_any(row) == GIT_OK
CreateCheck(row) == IF row.ex THEN GIT_EEXISTS ELSE GIT_OK

WriteCheck(c, row) ==
    IF c.old # NullOid \/ c.oldt # NullText THEN CasCheck(c, row) ELSE CreateCheck(row)

pg_refdb_write(w, s) ==
    LET c == w.ses[s]
        k == <<c.repo, c.name>>
    IN
    CASE c.pc = "begin" ->
           LET r == PgBegin(w, s, Inj(w, s)) IN
           IF ~r.ok THEN Ret(r.w, s, GIT_ERROR)
           ELSE Goto(r.w, s, IF c.force THEN "upsert" ELSE "select")
      [] c.pc = "select" ->
           LET r == PgSelectForUpdate(w, s, k, Inj(w, s)) IN
           IF ~r.ok THEN Ret(PgRollback(r.w, s), s, GIT_ERROR)
           ELSE IF WriteCheck(c, r.row) # GIT_OK
                THEN Ret(PgRollback(r.w, s), s, WriteCheck(c, r.row))
                ELSE Goto(r.w, s, "upsert")
      [] c.pc = "upsert" ->
           LET r == PgUpsertRef(w, s, k, c.val, UpsertSet(c.val), Inj(w, s)) IN
           IF ~r.ok THEN Ret(PgRollback(r.w, s), s, GIT_ERROR)
           ELSE Goto(MarkRef(w, r.w, s), s, IF c.who THEN "reflog" ELSE "commit")
      [] c.pc = "reflog" ->
           LET r == write_reflog_entry(w, s, c.repo, c.name, c.old, NewOidOf(c.val)) IN
           IF ~r.ok THEN Ret(PgRollback(r.w, s), s, GIT_ERROR)
           ELSE Goto(MarkLog(w, r.w, s), s, "commit")
      [] c.pc = "commit" ->
           LET r == PgCommit(w, s, Inj(w, s)) IN
           IF ~r.ok THEN Ret(PgRollback(r.w, s), s, GIT_ERROR)
           ELSE Ret(r.w, s, GIT_OK)

pg_refdb_write_blocked(w, s) ==
    LET c == w.ses[s]
        k == <<c.repo, c.name>>
    IN  \/ c.pc = "select" /\ BlocksOnRow(w, s, k)
        \/ c.pc = "upsert" /\ BlocksOnKey(w, s, k)

(* ---------------------------------------------------------------------- *)
(* pg_refdb_lookup                                                         *)
(* ---------------------------------------------------------------------- *)
pg_refdb_lookup(w, s, rid, name) == PgSelect(w, s, <<rid, name>>, FALSE).row

(* ---------------------------------------------------------------------- *)
(* pg_refdb_del                                                            *)
(* ---------------------------------------------------------------------- *)
DelCheck(c, row) ==
    IF ~row.ex THEN GIT_ENOTFOUND
    ELSE IF c.old # NullOid /\ (row.oid = NullOid \/ row.oid # c.old) THEN GIT_EEXISTS
    ELSE IF c.oldt # NullText /\ (row.symbolic = NullText \/ row.symbolic # c.oldt)
         THEN GIT_EEXISTS
    ELSE GIT_OK

pg_refdb_del(w, s) ==
    LET c == w.ses[s]
        k == <<c.repo, c.name>>
    IN
    CASE c.pc = "begin" ->
           LET r == PgBegin(w, s, Inj(w, s)) IN
           IF ~r.ok THEN Ret(r.w, s, GIT_ERROR)
           ELSE Goto(r.w, s, IF c.old # NullOid \/ c.oldt # NullText
                             THEN "select" ELSE "delete")
      [] c.pc = "select" ->
           LET r == PgSelectForUpdate(w, s, k, Inj(w, s)) IN
           IF ~r.ok THEN Ret(PgRollback(r.w, s), s, GIT_ERROR)
           ELSE IF DelCheck(c, r.row) # GIT_OK
                THEN Ret(PgRollback(r.w, s), s, DelCheck(c, r.row))
                ELSE Goto(r.w, s, "delete")
      [] c.pc = "delete" ->
           LET r == PgDeleteRef(w, s, k, Inj(w, s)) IN
           IF ~r.ok THEN Ret(PgRollback(r.w, s), s, GIT_ERROR)
           ELSE Goto(r.w, s, "dellog")
      [] c.pc = "dellog" ->
           Goto(PgDeleteReflog(w, s, c.repo, c.name, Inj(w, s)).w, s, "commit")
      [] c.pc = "commit" ->
           LET r == PgCommit(w, s, Inj(w, s)) IN
           IF ~r.ok THEN Ret(PgRollback(r.w, s), s, GIT_ERROR)
           ELSE Ret(r.w, s, GIT_OK)

pg_refdb_del_blocked(w, s) ==
    LET c == w.ses[s]
        k == <<c.repo, c.name>>
    IN  c.pc \in {"select", "delete"} /\ BlocksOnRow(w, s, k)

(* ---------------------------------------------------------------------- *)
(* pg_refdb_rename                                                         *)
(* ---------------------------------------------------------------------- *)
pg_refdb_rename(w, s) ==
    LET c == w.ses[s]
        kold == <<c.repo, c.name>>
        knew == <<c.repo, c.name2>>
    IN
    CASE c.pc = "begin" ->
           LET r == PgBegin(w, s, Inj(w, s)) IN
           IF ~r.ok THEN Ret(r.w, s, GIT_ERROR)
           ELSE Goto(r.w, s, IF c.force THEN "delnew" ELSE "check")
      [] c.pc = "check" ->
           LET r == PgSelect(w, s, knew, Inj(w, s)) IN
           IF ~r.ok THEN Ret(PgRollback(r.w, s), s, GIT_ERROR)
           ELSE IF r.row.ex THEN Ret(PgRollback(r.w, s), s, GIT_EEXISTS)
           ELSE Goto(r.w, s, "update")
      [] c.pc = "delnew" ->
           Goto(PgDeleteRef(w, s, knew, Inj(w, s)).w, s, "update")
      [] c.pc = "update" ->
           LET r == PgRenameRef(w, s, kold, knew, Inj(w, s)) IN
           IF ~r.ok THEN Ret(PgRollback(r.w, s), s, GIT_ERROR)
           ELSE IF ~r.row.ex THEN Ret(PgRollback(r.w, s), s, GIT_ENOTFOUND)
           ELSE Goto(r.w, s, "renlog")
      [] c.pc = "renlog" ->
           Goto(PgRenameReflog(w, s, c.repo, c.name, c.name2, Inj(w, s)).w, s, "fetch")
      [] c.pc = "fetch" ->
           LET r == PgSelect(w, s, knew, Inj(w, s)) IN
           IF ~r.ok \/ ~r.row.ex \/ ~RefsCheck(r.row)
           THEN Ret(PgRollback(r.w, s), s, GIT_ERROR)
           ELSE Goto([r.w EXCEPT !.ses[s].out = r.row], s, "commit")
      [] c.pc = "commit" ->
           LET r == PgCommit(w, s, Inj(w, s)) IN
           IF ~r.ok
           THEN Ret([PgRollback(r.w, s) EXCEPT !.ses[s].out = NoRow], s, GIT_ERROR)
           ELSE Ret(r.w, s, GIT_OK)

pg_refdb_rename_blocked(w, s) ==
    LET c == w.ses[s]
        kold == <<c.repo, c.name>>
        knew == <<c.repo, c.name2>>
    IN  \/ c.pc = "delnew" /\ BlocksOnRow(w, s, knew)
        \/ c.pc = "update" /\ (BlocksOnRow(w, s, kold) \/ BlocksOnKey(w, s, knew))

(* ---------------------------------------------------------------------- *)
(* pg_refdb_lock / pg_refdb_unlock                                         *)
(* ---------------------------------------------------------------------- *)
(* hash_refname: FNV-1a over the repo id and the name; the model keeps the *)
(* pair itself as the key                                                  *)
hash_refname(rid, name) == <<rid, name>>

pg_refdb_lock(w, s) ==
    LET c == w.ses[s] IN
    CASE c.pc = "begin" ->
           LET r == PgBegin(w, s, Inj(w, s)) IN
           IF ~r.ok THEN Ret(r.w, s, GIT_ERROR)
           ELSE Goto(r.w, s, "advlock")
      [] c.pc = "advlock" ->
           LET r == PgAdvisoryXactLock(w, s, hash_refname(c.repo, c.name), Inj(w, s)) IN
           IF ~r.ok THEN Ret(PgRollback(r.w, s), s, GIT_ERROR)
           ELSE Ret([r.w EXCEPT !.tokens[s] = @ \cup {c.name}], s, GIT_OK)

pg_refdb_lock_blocked(w, s) ==
    LET c == w.ses[s] IN
    c.pc = "advlock" /\ AdvBlocked(w, s, hash_refname(c.repo, c.name))

(* "End the transaction (commits on success, rolls back on error)", then   *)
(* the payload is freed; the result of COMMIT is not looked at             *)
UnlockEnd(w, s, error) ==
    LET c == w.ses[s]
        w1 == IF error = GIT_OK THEN PgCommit(w, s, Inj(w, s)).w ELSE PgRollback(w, s)
    IN  Ret([w1 EXCEPT !.tokens[s] = @ \ {c.name2}], s, error)

pg_refdb_unlock(w, s) ==
    LET c == w.ses[s]
        k == <<c.repo, c.name>>
    IN
    CASE c.pc = "upsert" ->
           LET r == PgUpsertRef(w, s, k, c.val, UpsertSet(c.val), Inj(w, s)) IN
           IF ~r.ok THEN Goto([r.w EXCEPT !.ses[s].rc = GIT_ERROR], s, "end")
           ELSE Goto(MarkRef(w, r.w, s), s,
                     IF c.upd /\ c.who THEN "reflog" ELSE "end")
      [] c.pc = "reflog" ->
           LET r == write_reflog_entry(w, s, c.repo, c.name, NullOid, NewOidOf(c.val)) IN
           IF ~r.ok THEN Goto([r.w EXCEPT !.ses[s].rc = GIT_ERROR], s, "end")
           ELSE Goto(MarkLog(w, r.w, s), s, "end")
      [] c.pc = "delete" ->
           LET r == PgDeleteRef(w, s, k, Inj(w, s)) IN
           IF ~r.ok THEN Goto([r.w EXCEPT !.ses[s].rc = GIT_ERROR], s, "end")
           ELSE Goto(r.w, s, "dellog")
      [] c.pc = "dellog" ->
           Goto(PgDeleteReflog(w, s, c.repo, c.name, Inj(w, s)).w, s, "end")
      [] c.pc = "end" ->
           UnlockEnd(w, s, c.rc)

pg_refdb_unlock_blocked(w, s) ==
    LET c == w.ses[s]
        k == <<c.repo, c.name>>
    IN  \/ c.pc = "upsert" /\ BlocksOnKey(w, s, k)
        \/ c.pc = "delete" /\ BlocksOnRow(w, s, k)

(* first statement of unlock by disposition                                *)
UnlockEntry(success) ==
    IF success = 1 THEN "upsert" ELSE IF success = 2 THEN "delete" ELSE "end"

(* ---------------------------------------------------------------------- *)
(* git_ref_update, git_ref_set_symbolic (SQL functions: one statement of   *)
(* the caller, atomic; an exception undoes what the function did)          *)
(* ---------------------------------------------------------------------- *)
IsSentinel(o) == o = NullOid \/ o = ZeroOid

(* "v_current_oid != p_old_oid" is NULL, hence not true, when the current  *)
(* oid is NULL (a symbolic ref)                                            *)
CurrentDiffers(cur, old) == cur # NullOid /\ cur # old

(* c.val.oid is p_new_oid, c.old is p_old_oid, c.force is p_force;         *)
(* c.out.ex is the boolean result when the call did not raise              *)
git_ref_update(w, s) ==
    LET c == w.ses[s]
        k == <<c.repo, c.name>>
        sel == PgSelectForUpdate(w, s, k, Inj(w, s))
        cur == sel.row
        done(r, b) == IF r.ok THEN Ret([r.w EXCEPT !.ses[s].out.ex = b], s, GIT_OK)
                      ELSE Ret(StmtError(w, s), s, GIT_ERROR)
    IN
    IF ~sel.ok THEN Ret(StmtError(w, s), s, GIT_ERROR)
    ELSE IF ~cur.ex
         THEN IF ~IsSentinel(c.old) THEN done(sel, FALSE)
              ELSE done(PgInsertRef(sel.w, s, k, MkRow(c.val.oid, NullText), FALSE), TRUE)
    ELSE IF ~c.force /\ ~IsSentinel(c.old) /\ CurrentDiffers(cur.oid, c.old)
         THEN done(sel, FALSE)
    ELSE IF IsSentinel(c.val.oid)
         THEN done(PgDeleteRef(sel.w, s, k, FALSE), TRUE)
    ELSE done(PgUpdateRef(sel.w, s, k, [oid |-> c.val.oid, symbolic |-> NullText], FALSE),
              TRUE)

git_ref_update_blocked(w, s) ==
    LET c == w.ses[s] IN BlocksOnRow(w, s, <<c.repo, c.name>>)

(* c.val.symbolic is p_target                                              *)
git_ref_set_symbolic(w, s) ==
    LET c == w.ses[s]
        k == <<c.repo, c.name>>
        r == PgUpsertRef(w, s, k, MkRow(NullOid, c.val.symbolic),
                         [oid |-> NullOid, symbolic |-> c.val.symbolic], Inj(w, s))
    IN  IF r.ok THEN Ret(r.w, s, GIT_OK) ELSE Ret(r.w, s, GIT_ERROR)

git_ref_set_symbolic_blocked(w, s) ==
    LET c == w.ses[s] IN BlocksOnKey(w, s, <<c.repo, c.name>>)

(* ---------------------------------------------------------------------- *)
(* Object store                                                            *)
(* ---------------------------------------------------------------------- *)
Contents == {<<>>, <<1>>}

(* type codes passed by callers: blob, tag, and a code outside 1..4        *)
ObjTypes == {3, 4, 5}

git_type_name(obj_type) ==
    CASE obj_type = 1 -> "commit"
      [] obj_type = 2 -> "tree"
      [] obj_type = 3 -> "blob"
      [] obj_type = 4 -> "tag"
      [] OTHER -> NullText

RECURSIVE BytesCode(_)
BytesCode(bytes) ==
    IF bytes = <<>> THEN 0 ELSE 3 * BytesCode(Tail(bytes)) + Head(bytes) + 1

(* SHA-1 of "<type> <size>\0<content>", modelled as an injective numbering *)
(* of the pre-images (no collisions)                                       *)
Sha1(name, size, content) ==
    LET code == CASE name = "commit" -> 1 [] name = "tree" -> 2
                  [] name = "blob" -> 3 [] name = "tag" -> 4
    IN  100 * code + 10 * size + BytesCode(content)

(* STRICT: a NULL type name gives a NULL hash                              *)
git_object_hash_blob(obj_type, content) ==
    IF git_type_name(obj_type) = NullText THEN NullOid
    ELSE Sha1("blob", Len(content), content)
git_object_hash(obj_type, content) ==
    IF git_type_name(obj_type) = NullText THEN NullOid
    ELSE Sha1(git_type_name(obj_type), Len(content), content)

ObjRow(rid, oid, type, size, content) ==
    [repo_id |-> rid, oid |-> oid, type |-> type, size |-> size, content |-> content]

RowsAt_anyrepo(objs, rid, oid) == {r \in objs : r.oid = oid}
RowsAt(objs, rid, oid) == {r \in objs : r.repo_id = rid /\ r.oid = oid}

(* INSERT INTO objects ... [ON CONFLICT (repo_id, oid) DO NOTHING |        *)
(* DO UPDATE SET type, size, content]; oid is NOT NULL, (repo_id, oid) is  *)
(* the primary key                                                         *)
PgInsertObject(objs, row, conflict) ==
    IF row.oid = NullOid THEN [ok |-> FALSE, objects |-> objs]
    ELSE IF RowsAt(objs, row.repo_id, row.oid) = {}
         THEN [ok |-> TRUE, objects |-> objs \cup {row}]
         ELSE CASE conflict = "nothing" -> [ok |-> TRUE, objects |-> objs]
                [] conflict = "update" ->
                     [ok |-> TRUE,
                      objects |-> (objs \ RowsAt(objs, row.repo_id, row.oid)) \cup {row}]
                [] OTHER -> [ok |-> FALSE, objects |-> objs]

pg_odb_read(objs, rid, oid) ==
    IF RowsAt(objs, rid, oid) = {}
    THEN [rc |-> GIT_ENOTFOUND, type |-> 0, size |-> 0, content |-> <<>>]
    ELSE LET r == CHOOSE r \in RowsAt(objs, rid, oid) : TRUE
         IN  [rc |-> GIT_OK, type |-> r.type, size |-> r.size, content |-> r.content]

pg_odb_exists(objs, rid, oid) == RowsAt(objs, rid, oid) # {}

(* the raw bytes of an oid: the model's number in the two leading bytes,   *)
(* the other eighteen zero                                                 *)
OidBytes(oid) ==
    <<oid \div 256, oid % 256>> \o [i \in 1..(GIT_OID_SHA1_SIZE - 2) |-> 0]

(* encode(oid, 'hex'): two digits per byte, high nibble first              *)
OidHex(oid) ==
    [i \in 1..GIT_OID_SHA1_HEXSIZE |->
        LET b == OidBytes(oid)[(i + 1) \div 2]
        IN  IF i % 2 = 1 THEN b \div 16 ELSE b % 16]

(* WHERE repo_id = $1 AND substring(oid from 1 for $2) = $3, $3 being the  *)
(* first byte_len bytes of short_oid->id                                   *)
PgSelectPrefix(objs, rid, byte_len, short_oid) ==
    {r \in objs : /\ r.repo_id = rid
                  /\ SubSeq(OidBytes(r.oid), 1, byte_len)
                         = SubSeq(OidBytes(short_oid), 1, byte_len)}

(* out is NullOid where pg_odb_exists_prefix does not write *out_oid        *)
PrefixResult(rc, out, type, size, content) ==
    [rc |-> rc, out |-> out, type |-> type, size |-> size, content |-> content]

(* out_oid is what the caller's git_oid holds when the function is called: *)
(* the function leaves it as it is on every path but the last one, the     *)
(* full-length path included                                               *)
pg_odb_read_prefix(objs, rid, out_oid, short_oid, prefix_len) ==
    IF prefix_len = GIT_OID_SHA1_HEXSIZE
    THEN LET r == pg_odb_read(objs, rid, short_oid)
         IN  PrefixResult(r.rc, out_oid, r.type, r.size, r.content)
    ELSE LET byte_len == (prefix_len + 1) \div 2
             res == PgSelectPrefix(objs, rid, byte_len, short_oid)
             nrows == Cardinality(res)
         IN  IF nrows = 0 THEN PrefixResult(GIT_ENOTFOUND, out_oid, 0, 0, <<>>)
             ELSE IF nrows > 1 THEN PrefixResult(GIT_EAMBIGUOUS, out_oid, 0, 0, <<>>)
             ELSE LET r == CHOOSE r \in res : TRUE
                  IN  PrefixResult(GIT_OK, r.oid, r.type, r.size, r.content)

pg_odb_exists_prefix(objs, rid, short_oid, prefix_len) ==
    IF prefix_len = GIT_OID_SHA1_HEXSIZE
    THEN IF ~pg_odb_exists(objs, rid, short_oid)
         THEN PrefixResult(GIT_ENOTFOUND, NullOid, 0, 0, <<>>)
         ELSE PrefixResult(GIT_OK, short_oid, 0, 0, <<>>)
    ELSE LET byte_len == (prefix_len + 1) \div 2
             res == PgSelectPrefix(objs, rid, byte_len, short_oid)
             nrows == Cardinality(res)
         IN  IF nrows = 0 THEN PrefixResult(GIT_ENOTFOUND, NullOid, 0, 0, <<>>)
             ELSE IF nrows > 1 THEN PrefixResult(GIT_EAMBIGUOUS, NullOid, 0, 0, <<>>)
             ELSE PrefixResult(GIT_OK, (CHOOSE r \in res : TRUE).oid, 0, 0, <<>>)

pg_odb_write_update(objs, rid, oid, data, type) ==
    LET r == PgInsertObject(objs, ObjRow(rid, oid, type, Len(data), data), "update")
    IN  [rc |-> IF r.ok THEN GIT_OK ELSE GIT_ERROR, objects |-> r.objects]
pg_odb_write(objs, rid, oid, data, type) ==
    LET r == PgInsertObject(objs, ObjRow(rid, oid, type, Len(data), data), "nothing")
    IN  [rc |-> IF r.ok THEN GIT_OK ELSE GIT_ERROR, objects |-> r.objects]

(* the function raises when the INSERT fails; it returns v_oid otherwise   *)
git_object_write_plain(objs, p_repo_id, p_type, p_content) ==
    LET v_oid == git_object_hash(p_type, p_content)
        r == PgInsertObject(objs, ObjRow(p_repo_id, v_oid, p_type, Len(p_content),
                                         p_content), "error")
    IN  [rc |-> IF r.ok THEN GIT_OK ELSE GIT_ERROR,
         oid |-> IF r.ok THEN v_oid ELSE NullOid, objects |-> r.objects]
git_object_write(objs, p_repo_id, p_type, p_content) ==
    LET v_oid == git_object_hash(p_type, p_content)
        r == PgInsertObject(objs, ObjRow(p_repo_id, v_oid, p_type, Len(p_content),
                                         p_content), "nothing")
    IN  [rc |-> IF r.ok THEN GIT_OK ELSE GIT_ERROR,
         oid |-> IF r.ok THEN v_oid ELSE NullOid, objects |-> r.objects]

(* an object of a pack or of a local repository: its oid is the hash of    *)
(* its type and content                                                    *)
GitObject(type, content) ==
    [oid |-> git_object_hash(type, content), type |-> type, content |-> content]
GitObjects == {GitObject(t, c) : t \in {t \in ObjTypes : git_type_name(t) # NullText},
                                 c \in Contents}
ObjOids == {o.oid : o \in GitObjects}

copy_object_cb(objs, rid, obj) == pg_odb_write(objs, rid, obj.oid, obj.content, obj.type)

(* git_odb_foreach over the pack, in oid order, stopping at the first      *)
(* callback error                                                          *)
RECURSIVE pg_writepack_commit(_, _, _)
pg_writepack_commit(objs, rid, pack) ==
    IF pack = {} THEN [rc |-> GIT_OK, objects |-> objs]
    ELSE LET obj == CHOOSE o \in pack : \A p \in pack : o.oid <= p.oid
             r == copy_object_cb(objs, rid, obj)
         IN  IF r.rc < 0 THEN r ELSE pg_writepack_commit(r.objects, rid, pack \ {obj})

(* git_odb_write hashes the data itself and hands the oid to the backend;  *)
(* the result is ignored                                                   *)
push_copy_cb(objs, rid, obj) ==
    IF pg_odb_exists(objs, rid, obj.oid) THEN objs
    ELSE pg_odb_write(objs, rid, git_object_hash(obj.type, obj.content),
                      obj.content, obj.type).objects

(* ---------------------------------------------------------------------- *)
(* Remote helper: push                                                     *)
(* ---------------------------------------------------------------------- *)
(* The source of a push line: empty (a deletion), the name of a local ref  *)
(* (kind "ref", oid its peeled target), 40 hex digits (kind "hex", oid     *)
(* their value) or anything else (kind "bad").                             *)
PushSrc(kind, oid) == [kind |-> kind, oid |-> oid]
push_spec(src, dst, force) == [src |-> src, dst |-> dst, force |-> force]

(* git_reference_lookup + git_reference_resolve, else git_oid_fromstr      *)
ResolveSrc(src) ==
    IF src.kind \in {"ref", "hex"} THEN [resolved |-> TRUE, oid |-> src.oid]
    ELSE [resolved |-> FALSE, oid |-> NullOid]

(* git_odb_foreach(local_odb, push_copy_cb)                                *)
RECURSIVE CopyLocalObjects(_, _, _)
CopyLocalObjects(objs, rid, local) ==
    IF local = {} THEN objs
    ELSE LET obj == CHOOSE o \in local : \A p \in local : o.oid <= p.oid
         IN  CopyLocalObjects(push_copy_cb(objs, rid, obj), rid, local \ {obj})

(* a line written to standard output; hex holds the 40 digits of a printed *)
(* oid, NoHex where the line has none                                      *)
OutLine(kind, hex, name, text) ==
    [kind |-> kind, hex |-> hex, name |-> name, text |-> text]
NoHex == <<>>

(* printf("\n")                                                            *)
BlankLine == OutLine("blank", NoHex, NullText, NullText)

(* printf("ok %s\n", dst)                                                  *)
StatusLine(status, dst) == OutLine(status, NoHex, dst, NullText)

(* the message of an error line and whether its text ends with a newline:  *)
(* a non-empty PQerrorMessage of libpq does                                *)
Message(text, nl) == [text |-> text, nl |-> nl]
CannotResolve == Message("cannot resolve", FALSE)
PQerrorMessage == Message("PQerrorMessage", TRUE)

(* printf("error %s %s\n", dst, message): a message that ends with a       *)
(* newline leaves an empty line behind it                                  *)
ErrorLines(dst, msg) ==
    <<OutLine("error", NoHex, dst, msg.text)>>
        \o (IF msg.nl THEN <<BlankLine>> ELSE <<>>)

(* push_spec specs[128]: the reading loop drops the push lines that do not *)
(* fit                                                                     *)
SpecsSize == 128
ReadSpecs(lines) ==
    SubSeq(lines, 1, IF Len(lines) < SpecsSize THEN Len(lines) ELSE SpecsSize)

(* the body of the loop over the push lines: the ref update of one line    *)
(* and the lines it prints                                                 *)
PushRef_checked(w, s, rid, sp) ==
    LET k == <<rid, sp.dst>>
        res == ResolveSrc(sp.src)
    IN  IF sp.src.kind = "empty"
        THEN [w |-> PgDeleteRef(w, s, k, FALSE).w, lines |-> <<StatusLine("ok", sp.dst)>>]
        ELSE IF ~res.resolved
        THEN [w |-> w, lines |-> ErrorLines(sp.dst, CannotResolve)]
        ELSE IF ~sp.force /\ PgSelect(w, s, k, FALSE).row.ex
        THEN [w |-> w, lines |-> ErrorLines(sp.dst, PQerrorMessage)]
        ELSE LET r == PgUpsertRef(w, s, k, MkRow(res.oid, NullText),
                                  [oid |-> res.oid, symbolic |-> NullText],
                                  w.ses[s].fail = "upsert")
             IN  [w |-> r.w,
                  lines |-> IF r.ok THEN <<StatusLine("ok", sp.dst)>>
                            ELSE ErrorLines(sp.dst, PQerrorMessage)]

PushRef(w, s, rid, sp) ==
    LET k == <<rid, sp.dst>>
        res == ResolveSrc(sp.src)
    IN  IF sp.src.kind = "empty"
        THEN [w |-> PgDeleteRef(w, s, k, FALSE).w, lines |-> <<StatusLine("ok", sp.dst)>>]
        ELSE IF ~res.resolved
        THEN [w |-> w, lines |-> ErrorLines(sp.dst, CannotResolve)]
        ELSE LET r == PgUpsertRef(w, s, k, MkRow(res.oid, NullText),
                                  [oid |-> res.oid, symbolic |-> NullText],
                                  w.ses[s].fail = "upsert")
             IN  [w |-> r.w,
                  lines |-> IF r.ok THEN <<StatusLine("ok", sp.dst)>>
                            ELSE ErrorLines(sp.dst, PQerrorMessage)]

(* the loop over the push lines, first to last; lines is the output so    *)
(* far.  The sequence is walked by halves, and the test on a.lines makes   *)
(* the first half's result a value before the second half starts, which    *)
(* keeps the evaluation of a full specs[] shallow.                         *)
RECURSIVE PushRefs(_, _, _, _, _)
PushRefs(w, s, rid, specs, lines) ==
    IF specs = <<>> THEN [w |-> w, lines |-> lines]
    ELSE IF Len(specs) = 1
    THEN LET r == PushRef(w, s, rid, specs[1])
         IN  [w |-> r.w, lines |-> lines \o r.lines]
    ELSE LET h == Len(specs) \div 2
             a == PushRefs(w, s, rid, SubSeq(specs, 1, h), lines)
         IN  IF Len(a.lines) >= 0
             THEN PushRefs(a.w, s, rid, SubSeq(specs, h + 1, Len(specs)), a.lines)
             ELSE a

(* "Ensure HEAD exists": a missing HEAD becomes a symbolic ref to the dst   *)
(* of the first push line                                                  *)
EnsureHead_none(w, s, rid, specs) ==
    PgSelect(w, s, <<rid, "HEAD">>, FALSE).w
EnsureHead(w, s, rid, specs) ==
    LET sel == PgSelect(w, s, <<rid, "HEAD">>, FALSE) IN
    IF sel.ok /\ ~sel.row.ex /\ Len(specs) > 0
    THEN PgInsertRefIgnore(sel.w, s, <<rid, "HEAD">>,
                           MkRow(NullOid, specs[1].dst), FALSE).w
    ELSE sel.w

(* c.specs are the push lines of the block, up to the blank line, c.local  *)
(* the objects of the local repository; c.lines is what the call prints    *)
cmd_push(w, s) ==
    LET c == w.ses[s]
        specs == ReadSpecs(c.specs)
        w1 == [w EXCEPT !.objects = CopyLocalObjects(@, c.repo, c.local)]
        p == PushRefs(w1, s, c.repo, specs, <<>>)
        w2 == EnsureHead(p.w, s, c.repo, specs)
    IN  Ret([w2 EXCEPT !.ses[s].lines = Append(p.lines, BlankLine)], s, GIT_OK)

cmd_push_blocked(w, s) ==
    \E i \in 1..Len(w.ses[s].specs) :
        BlocksOnKey(w, s, <<w.ses[s].repo, w.ses[s].specs[i].dst>>)

(* ---------------------------------------------------------------------- *)
(* Dispatch: one statement of the running handler of session s             *)
(* ---------------------------------------------------------------------- *)
Exec(w, s) ==
    LET op == w.ses[s].op IN
    CASE op = "write" -> pg_refdb_write(w, s)
      [] op = "del" -> pg_refdb_del(w, s)
      [] op = "rename" -> pg_refdb_rename(w, s)
      [] op = "lock" -> pg_refdb_lock(w, s)
      [] op = "unlock" -> pg_refdb_unlock(w, s)
      [] op = "ref_update" -> git_ref_update(w, s)
      [] op = "set_symbolic" -> git_ref_set_symbolic(w, s)
      [] op = "push" -> cmd_push(w, s)

Blocked(w, s) ==
    LET op == w.ses[s].op IN
    /\ ~Failing(w, s, Inj(w, s))
    /\ CASE op = "write" -> pg_refdb_write_blocked(w, s)
         [] op = "del" -> pg_refdb_del_blocked(w, s)
         [] op = "rename" -> pg_refdb_rename_blocked(w, s)
         [] op = "lock" -> pg_refdb_lock_blocked(w, s)
         [] op = "unlock" -> pg_refdb_unlock_blocked(w, s)
         [] op = "ref_update" -> git_ref_update_blocked(w, s)
         [] op = "set_symbolic" -> git_ref_set_symbolic_blocked(w, s)
         [] op = "push" -> cmd_push_blocked(w, s)

Running(w, s) == w.ses[s].pc \notin {"idle", "ret"}

(* a handler run to its return: the single-threaded caller of §5           *)
RECURSIVE Run(_, _)
Run(w, s) == IF Running(w, s) /\ ~Blocked(w, s) THEN Run(Exec(w, s), s) ELSE w

(* ---------------------------------------------------------------------- *)
(* Inputs                                                                  *)
(* ---------------------------------------------------------------------- *)
Vals == {DirectRow(o) : o \in Oids} \cup {SymRow(t) : t \in RefNames}
OldOids == {NullOid} \cup Oids
OldTargets == {NullText} \cup RefNames

CallWrite(name, force, old, oldt, who, val, fail) ==
    [IdleSes EXCEPT !.pc = "begin", !.op = "write", !.name = name, !.force = force,
                    !.old = old, !.oldt = oldt, !.who = who, !.val = val, !.fail = fail]
CallDel(name, old, oldt, fail) ==
    [IdleSes EXCEPT !.pc = "begin", !.op = "del", !.name = name,
                    !.old = old, !.oldt = oldt, !.fail = fail]
CallRename(name, name2, force, fail) ==
    [IdleSes EXCEPT !.pc = "begin", !.op = "rename", !.name = name, !.name2 = name2,
                    !.force = force, !.fail = fail]
CallLock(name, fail) ==
    [IdleSes EXCEPT !.pc = "begin", !.op = "lock", !.name = name, !.fail = fail]
CallUnlock(tok, success, upd, who, val, fail) ==
    [IdleSes EXCEPT !.pc = UnlockEntry(success), !.op = "unlock", !.name = tok,
                    !.name2 = tok, !.success = success, !.upd = upd, !.who = who,
                    !.val = val, !.fail = fail]
CallRefUpdate(name, new, old, force) ==
    [IdleSes EXCEPT !.pc = "exec", !.op = "ref_update", !.name = name,
                    !.val = MkRow(new, NullText), !.old = old, !.force = force]
CallPush(specs, local, fail) ==
    [IdleSes EXCEPT !.pc = "exec", !.op = "push", !.specs = specs, !.local = local,
                    !.fail = fail]
CallSetSymbolic(name, target) ==
    [IdleSes EXCEPT !.pc = "exec", !.op = "set_symbolic", !.name = name,
                    !.val = MkRow(NullOid, target)]

(* logseq counts the calls that were asked to write a reflog row; MaxLog   *)
(* bounds it                                                               *)
Start(w, s, c) ==
    [w EXCEPT !.ses[s] = c,
              !.logseq = IF c.who /\ (c.op = "write" \/ (c.op = "unlock" /\ c.upd))
                         THEN @ + 1 ELSE @]

LogRoom(who) == who => logseq < MaxLog

(* ---------------------------------------------------------------------- *)
(* Spec: one client calling the ref store, each call run to its return     *)
(* ---------------------------------------------------------------------- *)
Init ==
    /\ refs = [k \in Keys |-> NoRow]
    /\ reflog = EmptyBag
    /\ logseq = 0
    /\ tx = [s \in Sessions |-> IdleTx]
    /\ tokens = [s \in Sessions |-> {}]
    /\ ses = [s \in Sessions |-> IdleSes]
    /\ objects = {}
    /\ ocall = IdleObj
    /\ helper = IdleHelper
    /\ fcall = IdleCall

Idle(s) == ses[s].pc = "idle"

(* the libgit2 client is session s1; the SQL functions are called by an    *)
(* SQL client, session s2, outside any transaction block                   *)
Quiet == Idle("s1") /\ Idle("s2")

(* expected old value of a write or del: none, an oid, or a target         *)
Expected ==
    {<<NullOid, NullText>>} \cup {<<o, NullText>> : o \in Oids}
    \cup {<<NullOid, t>> : t \in RefNames}

Write ==
    \E name \in RefNames, force \in BOOLEAN, e \in Expected, who \in BOOLEAN,
       val \in Vals :
        /\ Quiet /\ tokens["s1"] = {} /\ LogRoom(who)
        /\ SetWorld(Run(Start(World, "s1",
                              CallWrite(name, force, e[1], e[2], who, val, "none")), "s1"))

Del ==
    \E name \in RefNames, e \in Expected :
        /\ Quiet /\ tokens["s1"] = {}
        /\ SetWorld(Run(Start(World, "s1", CallDel(name, e[1], e[2], "none")), "s1"))

Rename ==
    \E name \in RefNames, name2 \in RefNames, force \in BOOLEAN :
        /\ Quiet /\ tokens["s1"] = {}
        /\ SetWorld(Run(Start(World, "s1", CallRename(name, name2, force, "none")), "s1"))

Lock ==
    \E name \in RefNames :
        /\ Quiet /\ tokens["s1"] = {}
        /\ SetWorld(Run(Start(World, "s1", CallLock(name, "none")), "s1"))

UnlockArgs ==
    {<<1, upd, who, val>> : upd \in BOOLEAN, who \in BOOLEAN, val \in Vals}
    \cup {<<0, FALSE, FALSE, NoRow>>, <<2, FALSE, FALSE, NoRow>>}

Unlock ==
    \E tok \in tokens["s1"], a \in UnlockArgs :
        /\ Quiet /\ LogRoom(a[2] /\ a[3])
        /\ SetWorld(Run(Start(World, "s1",
                              CallUnlock(tok, a[1], a[2], a[3], a[4], "none")), "s1"))

RefUpdate ==
    \E name \in RefNames, new \in OldOids, old \in OldOids, force \in BOOLEAN :
        /\ Quiet
        /\ SetWorld(Run(Start(World, "s2", CallRefUpdate(name, new, old, force)), "s2"))

SetSymbolic ==
    \E name \in RefNames, target \in OldTargets :
        /\ Quiet
        /\ SetWorld(Run(Start(World, "s2", CallSetSymbolic(name, target)), "s2"))

Return ==
    \E s \in Sessions :
        /\ ses[s].pc = "ret"
        /\ ses' = [ses EXCEPT ![s] = IdleSes]
        /\ UNCHANGED <<refs, reflog, logseq, tx, tokens, objects, ocall, helper, fcall>>

Next ==
    \/ Write
    \/ Del
    \/ Rename
    \/ Lock
    \/ Unlock
    \/ Return

Spec == Init /\ [][Next]_vars

(* ---------------------------------------------------------------------- *)
(* SpecRefs: every operation that changes table refs, the remote helper's *)
(* push included, each call run to its return; no call asks for a reflog  *)
(* row                                                                     *)
(* ---------------------------------------------------------------------- *)
PushSrcs ==
    {PushSrc("empty", NullOid), PushSrc("bad", NullOid)}
    \cup {PushSrc("ref", o) : o \in Oids \ {ZeroOid}}
    \cup {PushSrc("hex", o) : o \in Oids}
PushLines == {push_spec(src, dst, force) : src \in PushSrcs, dst \in RefNames,
                                          force \in BOOLEAN}
(* a block with one push line more than specs[] holds                      *)
LongPush ==
    {[i \in 1..(SpecsSize + 1) |-> IF i <= SpecsSize THEN a ELSE b] :
        a \in {push_spec(PushSrc("hex", MaxOid), "refs/heads/main", FALSE)},
        b \in {push_spec(PushSrc("hex", MaxOid), "HEAD", FALSE),
               push_spec(PushSrc("empty", NullOid), "refs/heads/main", FALSE)}}
PushInputs == UNION {[1..n -> PushLines] : n \in 1..MaxPush} \cup LongPush
LocalOdbs == {{}, {GitObject(3, <<>>)}}

Push ==
    \E specs \in PushInputs, local \in LocalOdbs :
        /\ Quiet
        /\ SetWorld(Run(Start(World, "s2", CallPush(specs, local, "none")), "s2"))

WriteRef ==
    \E name \in RefNames, force \in BOOLEAN, e \in Expected, val \in Vals :
        /\ Quiet /\ tokens["s1"] = {}
        /\ SetWorld(Run(Start(World, "s1",
                              CallWrite(name, force, e[1], e[2], FALSE, val, "none")), "s1"))

UnlockRef ==
    \E tok \in tokens["s1"], a \in UnlockArgs :
        /\ Quiet /\ ~a[3]
        /\ SetWorld(Run(Start(World, "s1",
                              CallUnlock(tok, a[1], a[2], a[3], a[4], "none")), "s1"))

NextRefs ==
    \/ WriteRef
    \/ Del
    \/ Rename
    \/ Lock
    \/ UnlockRef
    \/ RefUpdate
    \/ SetSymbolic
    \/ Push
    \/ Return

SpecRefs == Init /\ [][NextRefs]_vars

(* ---------------------------------------------------------------------- *)
(* SpecObj: one client writing objects, each call run to its return       *)
(* ---------------------------------------------------------------------- *)
ObjRoom(objs) == Cardinality(objs) <= MaxObj

ObjDone(op, rid, oid, type, content, pack, r, out) ==
    /\ ObjRoom(r.objects)
    /\ objects' = r.objects
    /\ ocall' = [op |-> op, repo |-> rid, oid |-> oid, type |-> type,
                 content |-> content, pack |-> pack, rc |-> r.rc, out |-> out,
                 had |-> RowsAt(objects, rid, oid) # {}, n |-> 0, size |-> 0]
    /\ UNCHANGED <<refs, reflog, logseq, tx, tokens, ses, helper, fcall>>

ObjectWrite ==
    \E rid \in RepoIds, type \in ObjTypes, content \in Contents :
        LET r == git_object_write(objects, rid, type, content)
        IN  /\ ocall = IdleObj
            /\ ObjDone("git_object_write", rid, git_object_hash(type, content),
                       type, content, {}, r, r.oid)

OdbWrite ==
    \E rid \in RepoIds, oid \in ObjOids, type \in ObjTypes, content \in Contents :
        LET r == pg_odb_write(objects, rid, oid, content, type)
        IN  /\ ocall = IdleObj
            /\ ObjDone("pg_odb_write", rid, oid, type, content, {}, r, oid)

Packs == {{a, b} : a \in GitObjects, b \in GitObjects}

WritepackCommit ==
    \E rid \in RepoIds, pack \in Packs :
        LET r == pg_writepack_commit(objects, rid, pack)
        IN  /\ ocall = IdleObj
            /\ ObjDone("pg_writepack_commit", rid, NullOid, 0, <<>>, pack, r, NullOid)

ObjReturn ==
    /\ ocall # IdleObj
    /\ ocall' = IdleObj
    /\ UNCHANGED <<refs, reflog, logseq, tx, tokens, ses, objects, helper, fcall>>

NextObj ==
    \/ ObjectWrite
    \/ OdbWrite
    \/ WritepackCommit
    \/ ObjReturn

SpecObj == Init /\ [][NextObj]_vars

(* ---------------------------------------------------------------------- *)
(* SpecPrefix: a client storing objects under their hashes and looking     *)
(* them up by prefix                                                       *)
(* ---------------------------------------------------------------------- *)
(* the first n hex digits of oid, the other digits zero: the key libgit2   *)
(* hands to the backend for a short id                                     *)
RECURSIVE HexValue(_)
HexValue(digits) ==
    IF digits = <<>> THEN 0
    ELSE 16 * HexValue(SubSeq(digits, 1, Len(digits) - 1)) + digits[Len(digits)]

Truncated(oid, n) ==
    HexValue([i \in 1..4 |-> IF i <= n THEN OidHex(oid)[i] ELSE 0])

ShortOids == ObjOids \cup {Truncated(o, n) : o \in ObjOids, n \in 1..4}

PrefixLens == 1..GIT_OID_SHA1_HEXSIZE

PrefixStore ==
    \E rid \in RepoIds, obj \in GitObjects :
        LET r == git_object_write(objects, rid, obj.type, obj.content)
        IN  /\ ocall = IdleObj
            /\ objects' = r.objects
            /\ ocall' = [IdleObj EXCEPT !.op = "git_object_write", !.repo = rid,
                                        !.oid = obj.oid, !.type = obj.type,
                                        !.content = obj.content, !.rc = r.rc,
                                        !.out = r.oid]
            /\ UNCHANGED <<refs, reflog, logseq, tx, tokens, ses, helper, fcall>>

PrefixDone(op, rid, short_oid, n, r) ==
    /\ ocall = IdleObj
    /\ ocall' = [IdleObj EXCEPT !.op = op, !.repo = rid, !.oid = short_oid, !.n = n,
                                !.rc = r.rc, !.out = r.out, !.type = r.type,
                                !.size = r.size, !.content = r.content]
    /\ UNCHANGED <<refs, reflog, logseq, tx, tokens, ses, objects, helper, fcall>>

(* what the caller's git_oid may hold before the call: it is not          *)
(* initialised, so any oid or none                                         *)
OutOids == ObjOids \cup {NullOid}

(* the caller reads its git_oid on success only, and a success with a      *)
(* shorter prefix overwrites it: there one initial value stands for all    *)
ReadPrefix ==
    \E rid \in RepoIds, short_oid \in ShortOids, n \in PrefixLens :
        \E out_oid \in IF n = GIT_OID_SHA1_HEXSIZE THEN OutOids ELSE {NullOid} :
            PrefixDone("pg_odb_read_prefix", rid, short_oid, n,
                       pg_odb_read_prefix(objects, rid, out_oid, short_oid, n))

ExistsPrefix ==
    \E rid \in RepoIds, short_oid \in ShortOids, n \in PrefixLens :
        PrefixDone("pg_odb_exists_prefix", rid, short_oid, n,
                   pg_odb_exists_prefix(objects, rid, short_oid, n))

NextPrefix ==
    \/ PrefixStore
    \/ ReadPrefix
    \/ ExistsPrefix
    \/ ObjReturn

SpecPrefix == Init /\ [][NextPrefix]_vars


(* ---------------------------------------------------------------------- *)
(* Remote helper: capabilities, list and fetch                             *)
(* ---------------------------------------------------------------------- *)
cmd_capabilities ==
    <<OutLine("cap", NoHex, NullText, "fetch"), OutLine("cap", NoHex, NullText, "push"),
      BlankLine>>

(* ORDER BY name over the names of the model                               *)
NameOrder == <<"HEAD", "refs/heads/dev", "refs/heads/main">>

(* rf is table refs as the SELECT sees it.  The first loop prints the      *)
(* rows other than HEAD that have an oid and remembers HEAD; a symbolic    *)
(* HEAD is printed when a row named like its target has an oid             *)
cmd_list(rf, rid) ==
    LET row(n) == rf[<<rid, n>>]
        names == SelectSeq(NameOrder, LAMBDA n : row(n).ex)
        head == row("HEAD")
        head_symbolic == IF head.ex /\ head.symbolic # NullText
                         THEN head.symbolic ELSE NullText
        head_oid == IF head.ex /\ head.symbolic = NullText /\ head.oid # NullOid
                    THEN head.oid ELSE NullOid
        direct == SelectSeq(names, LAMBDA n : n # "HEAD" /\ row(n).oid # NullOid)
        resolved == \E i \in 1..Len(names) :
                        names[i] = head_symbolic /\ row(names[i]).oid # NullOid
    IN  [i \in 1..Len(direct) |->
            OutLine("ref", OidHex(row(direct[i]).oid), direct[i], NullText)]
        \o (IF head_symbolic # NullText
            THEN IF resolved THEN <<OutLine("symref", NoHex, "HEAD", head_symbolic)>>
                 ELSE <<>>
            ELSE IF head_oid # NullOid
                 THEN <<OutLine("ref", OidHex(head_oid), "HEAD", NullText)>>
                 ELSE <<>>)
        \o <<BlankLine>>

(* libgit2 on the local repository: git_odb_exists, and git_odb_write,     *)
(* which hashes the data, refuses an invalid type and leaves an object it  *)
(* already has alone                                                       *)
git_odb_exists(local, oid) == \E o \in local : o.oid = oid
git_odb_write(local, data, type) ==
    IF git_object_hash(type, data) = NullOid
           \/ git_odb_exists(local, git_object_hash(type, data))
    THEN local
    ELSE local \cup {GitObject(type, data)}

(* libgit2 reading from the backend: with strict hash verification (an     *)
(* option of the library) a row whose oid is not the hash of its type and  *)
(* content is an error                                                     *)
GIT_EMISMATCH == -33
git_odb_read(objs, rid, oid, strict) ==
    LET r == pg_odb_read(objs, rid, oid) IN
    IF r.rc = GIT_OK /\ strict /\ git_object_hash(r.type, r.content) # oid
    THEN [r EXCEPT !.rc = GIT_EMISMATCH]
    ELSE r

(* ctx.local is the local object store, ctx.count the counter of the       *)
(* callback, ctx.asked (ghost) the oids it went on to read                 *)
fetch_copy_cb_all(ctx, objs, rid, oid, strict) ==
    LET r == git_odb_read(objs, rid, oid, strict) IN
    IF r.rc < 0 THEN [ctx EXCEPT !.asked = @ \cup {oid}]
    ELSE [ctx EXCEPT !.local = git_odb_write(@, r.content, r.type),
                     !.count = @ + 1, !.asked = @ \cup {oid}]
fetch_copy_cb(ctx, objs, rid, oid, strict) ==
    IF git_odb_exists(ctx.local, oid) THEN ctx
    ELSE LET r == git_odb_read(objs, rid, oid, strict) IN
         IF r.rc < 0 THEN [ctx EXCEPT !.asked = @ \cup {oid}]
         ELSE [ctx EXCEPT !.local = git_odb_write(@, r.content, r.type),
                          !.count = @ + 1, !.asked = @ \cup {oid}]

(* pg_odb_foreach: the callback on every oid of the repository, in the     *)
(* order the SELECT returned them                                          *)
RECURSIVE pg_odb_foreach(_, _, _, _, _)
pg_odb_foreach(ctx, objs, rid, order, strict) ==
    IF order = <<>> THEN ctx
    ELSE pg_odb_foreach(fetch_copy_cb(ctx, objs, rid, Head(order), strict),
                        objs, rid, Tail(order), strict)

(* the work of cmd_fetch after its reading loop                            *)
cmd_fetch(local, objs, rid, order, strict) ==
    pg_odb_foreach([local |-> local, count |-> 0, asked |-> {}], objs, rid, order, strict)

RepoObjects(objs, rid) == {r \in objs : r.repo_id = rid}

(* the orders in which a SELECT without ORDER BY can return the oids       *)
Orders(S) ==
    {f \in [1..Cardinality(S) -> S] :
        \A i, j \in 1..Cardinality(S) : i # j => f[i] # f[j]}

(* ---------------------------------------------------------------------- *)
(* Remote helper: the loop of main                                         *)
(* ---------------------------------------------------------------------- *)
(* A line of standard input: cmd is "capabilities", "list",                *)
(* "list for-push", "fetch" (a line that starts with "fetch "), "push" (a  *)
(* line that starts with "push ", spec what parse_push_spec makes of it),  *)
(* "" (an empty line) or "unknown" (any other line).                       *)
InLine(cmd, spec) == [cmd |-> cmd, spec |-> spec]
NoSpec == push_spec(PushSrc("empty", NullOid), NullText, FALSE)

(* printf of the lines of one command                                      *)
Respond(h, lines) == [h EXCEPT !.resp = lines, !.nout = @ + Len(lines)]

(* one pass of the while loop of main: fgets returned line l               *)
MainLine(h, rf, objs, l) ==
    LET h1 == [h EXCEPT !.nin = @ + 1, !.line = l.cmd, !.resp = <<>>] IN
    CASE l.cmd = "capabilities" -> Respond(h1, cmd_capabilities)
      [] l.cmd \in {"list", "list for-push"} -> Respond(h1, cmd_list(rf, h.repo))
      [] l.cmd = "fetch" ->
           [h1 EXCEPT !.pc = "IN_FETCH_BLOCK", !.blocks = @ + 1,
                      !.before = RepoObjects(objs, h.repo), !.had = h.local]
      [] l.cmd = "push" ->
           [h1 EXCEPT !.pc = "IN_PUSH_BLOCK", !.blocks = @ + 1, !.block = <<l.spec>>,
                      !.before = RepoObjects(objs, h.repo), !.had = h.local]
      [] l.cmd = "" -> [h1 EXCEPT !.pc = "TERMINATED"]
      [] OTHER -> h1

(* one pass of the reading loop of cmd_fetch                               *)
FetchLine(h, l) ==
    IF l.cmd = "" THEN [h EXCEPT !.nin = @ + 1, !.line = l.cmd, !.pc = "FETCH_WORK"]
    ELSE [h EXCEPT !.nin = @ + 1, !.line = l.cmd]

(* one pass of the reading loop of cmd_push: the push lines are kept, the  *)
(* other lines dropped                                                     *)
PushLine(h, l) ==
    IF l.cmd = "" THEN [h EXCEPT !.nin = @ + 1, !.line = l.cmd, !.pc = "PUSH_WORK"]
    ELSE IF l.cmd = "push"
    THEN [h EXCEPT !.nin = @ + 1, !.line = l.cmd, !.block = Append(@, l.spec)]
    ELSE [h EXCEPT !.nin = @ + 1, !.line = l.cmd]

ReadLine(h, rf, objs, l) ==
    CASE h.pc = "IDLE" -> MainLine(h, rf, objs, l)
      [] h.pc = "IN_FETCH_BLOCK" -> FetchLine(h, l)
      [] h.pc = "IN_PUSH_BLOCK" -> PushLine(h, l)

(* fgets returns NULL: the loop of main ends, the reading loop of a block  *)
(* ends and the block goes on to its work                                  *)
ReadEof(h) ==
    [h EXCEPT !.eof = TRUE,
              !.pc = CASE h.pc = "IDLE" -> "TERMINATED"
                       [] h.pc = "IN_FETCH_BLOCK" -> "FETCH_WORK"
                       [] h.pc = "IN_PUSH_BLOCK" -> "PUSH_WORK"]

Reading == helper.pc \in {"IDLE", "IN_FETCH_BLOCK", "IN_PUSH_BLOCK"}

OnlyHelper == UNCHANGED <<refs, reflog, logseq, tx, tokens, ses, objects, ocall, fcall>>

(* main up to its loop: the repository at GIT_DIR holds local; fail tells  *)
(* whether the database fails the upserts of the helper                    *)
StartHelper(fails) ==
    \E local \in LocalOdbs, fail \in fails :
        /\ helper.pc = "START"
        /\ Quiet
        /\ helper' = [helper EXCEPT !.pc = "IDLE", !.local = local, !.fail = fail]
        /\ OnlyHelper

Read(lines) ==
    \E l \in lines :
        /\ Reading
        /\ ~helper.eof
        /\ helper.nin < MaxIn
        /\ helper' = ReadLine(helper, refs, objects, l)
        /\ OnlyHelper

HelperEof ==
    /\ Reading
    /\ helper' = ReadEof(helper)
    /\ OnlyHelper

FetchWork ==
    \E order \in Orders({r.oid : r \in RepoObjects(objects, helper.repo)}),
       strict \in BOOLEAN :
        LET ctx == cmd_fetch(helper.local, objects, helper.repo, order, strict) IN
        /\ helper.pc = "FETCH_WORK"
        /\ helper' = Respond([helper EXCEPT !.pc = "IDLE", !.works = @ + 1,
                                            !.local = ctx.local, !.asked = ctx.asked],
                             <<BlankLine>>)
        /\ OnlyHelper

(* cmd_push after its reading loop, on the helper's connection             *)
PushWork ==
    LET w == Run(Start(World, "s2", CallPush(helper.block, helper.local, helper.fail)),
                 "s2")
    IN  /\ helper.pc = "PUSH_WORK"
        /\ Quiet
        /\ w.ses["s2"].pc = "ret"
        /\ SetWorld([w EXCEPT !.ses["s2"] = IdleSes,
                              !.helper = Respond([helper EXCEPT !.pc = "IDLE",
                                                                !.works = @ + 1,
                                                                !.block = <<>>],
                                                 w.ses["s2"].lines)])

(* ---------------------------------------------------------------------- *)
(* SpecHelper: the refs of the repository are set up by an SQL client,     *)
(* then the helper runs on any input of at most MaxIn lines                *)
(* ---------------------------------------------------------------------- *)
HelperPushSpecs ==
    {push_spec(src, dst, FALSE) :
        src \in {PushSrc("empty", NullOid), PushSrc("bad", NullOid),
                 PushSrc("hex", MaxOid)},
        dst \in RefNames}
HelperLines ==
    {InLine(c, NoSpec) : c \in {"capabilities", "list", "list for-push", "fetch",
                                "", "unknown"}}
    \cup {InLine("push", sp) : sp \in HelperPushSpecs}

PrepareRef == helper.pc = "START" /\ RefUpdate
PrepareSymbolic == helper.pc = "START" /\ SetSymbolic
HelperStart == StartHelper({"none", "upsert"})
HelperRead == Read(HelperLines)

NextHelper ==
    \/ PrepareRef
    \/ PrepareSymbolic
    \/ Return
    \/ HelperStart
    \/ HelperRead
    \/ HelperEof
    \/ FetchWork
    \/ PushWork

SpecHelper == Init /\ [][NextHelper]_vars

(* ---------------------------------------------------------------------- *)
(* SpecFetch: clients of the object store write rows before the helper     *)
(* starts and while a fetch block is open; the rows of the helper's repository    *)
(* are stored under any oid, those of the other repository under their     *)
(* hash                                                                    *)
(* ---------------------------------------------------------------------- *)
FetchLines == {InLine(c, NoSpec) : c \in {"fetch", "", "unknown"}}

FetchStore ==
    \E rid \in RepoIds, obj \in GitObjects :
      \E oid \in IF rid = IdleHelper.repo THEN ObjOids ELSE {obj.oid} :
        LET r == pg_odb_write(objects, rid, oid, obj.content, obj.type)
        IN  /\ helper.pc \in {"START", "IN_FETCH_BLOCK"}
            /\ ObjRoom(r.objects)
            /\ objects' = r.objects
            /\ UNCHANGED <<refs, reflog, logseq, tx, tokens, ses, ocall, helper, fcall>>

FetchStart == StartHelper({"none"})
FetchRead == Read(FetchLines)

NextFetch ==
    \/ FetchStore
    \/ FetchStart
    \/ FetchRead
    \/ HelperEof
    \/ FetchWork

SpecFetch == Init /\ [][NextFetch]_vars


(* ---------------------------------------------------------------------- *)
(* SpecErr: one client calling the ref store outside any lock, each call   *)
(* run to its return, any one statement of a call failing                  *)
(* ---------------------------------------------------------------------- *)
WriteFails == {"none", "begin", "select", "upsert", "reflog", "commit"}
DelFails == {"none", "begin", "select", "delete", "dellog", "commit"}
RenameFails == {"none", "begin", "check", "delnew", "update", "renlog", "fetch", "commit"}
LockFails == {"none", "begin", "advlock"}

ErrWrite ==
    \E name \in RefNames, force \in BOOLEAN, e \in Expected, who \in BOOLEAN,
       val \in Vals, fail \in WriteFails :
        /\ Quiet /\ tokens["s1"] = {} /\ LogRoom(who)
        /\ SetWorld(Run(Start(World, "s1",
                              CallWrite(name, force, e[1], e[2], who, val, fail)), "s1"))

ErrDel ==
    \E name \in RefNames, e \in Expected, fail \in DelFails :
        /\ Quiet /\ tokens["s1"] = {}
        /\ SetWorld(Run(Start(World, "s1", CallDel(name, e[1], e[2], fail)), "s1"))

ErrRename ==
    \E name \in RefNames, name2 \in RefNames, force \in BOOLEAN, fail \in RenameFails :
        /\ Quiet /\ tokens["s1"] = {}
        /\ SetWorld(Run(Start(World, "s1", CallRename(name, name2, force, fail)), "s1"))

ErrLock ==
    \E name \in RefNames, fail \in LockFails :
        /\ Quiet /\ tokens["s1"] = {}
        /\ SetWorld(Run(Start(World, "s1", CallLock(name, fail)), "s1"))

NextErr ==
    \/ ErrWrite
    \/ ErrDel
    \/ ErrRename
    \/ ErrLock
    \/ Unlock
    \/ Return

SpecErr == Init /\ [][NextErr]_vars

(* ---------------------------------------------------------------------- *)
(* pg_refdb_iterator: ref names and globs as strings of characters         *)
(* ---------------------------------------------------------------------- *)
GIT_ITEROVER == -31

NameChars == {"a", "_"}
GlobChars == NameChars \cup {"%", "*"}

CharCode(ch) ==
    CASE ch = "%" -> 37 [] ch = "*" -> 42 [] ch = "_" -> 95 [] ch = "a" -> 97

Strings(chars, n) == UNION {[1..m -> chars] : m \in 0..n}

IterNames == Strings(NameChars, MaxName) \ {<<>>}

(* the glob argument: a null pointer or a string                           *)
GlobArg(null, text) == [null |-> null, text |-> text]
IterGlobs == {GlobArg(TRUE, <<>>)} \cup {GlobArg(FALSE, g) : g \in Strings(GlobChars, MaxGlob)}

(* table refs as the set of its (repo_id, name) keys                       *)
IterRows == RepoIds \X IterNames
IterTables == {t \in SUBSET IterRows : Cardinality(t) <= MaxRows}

(* "replace * with % for SQL LIKE"                                         *)
LikeOfGlob(glob) == [i \in 1..Len(glob) |-> IF glob[i] = "*" THEN "%" ELSE glob[i]]

Drop(str, n) == SubSeq(str, n + 1, Len(str))

(* name LIKE pattern: % matches any sequence of characters, _ any single   *)
(* character, any other character itself                                   *)
RECURSIVE PgLike(_, _)
PgLike(str, pat) ==
    IF pat = <<>> THEN str = <<>>
    ELSE IF Head(pat) = "%"
         THEN \E n \in 0..Len(str) : PgLike(Drop(str, n), Tail(pat))
    ELSE IF str = <<>> THEN FALSE
    ELSE IF Head(pat) = "_" THEN PgLike(Tail(str), Tail(pat))
    ELSE Head(str) = Head(pat) /\ PgLike(Tail(str), Tail(pat))

(* ORDER BY name, byte by byte                                             *)
RECURSIVE NameLess(_, _)
NameLess(a, b) ==
    IF b = <<>> THEN FALSE
    ELSE IF a = <<>> THEN TRUE
    ELSE IF Head(a) # Head(b) THEN CharCode(Head(a)) < CharCode(Head(b))
    ELSE NameLess(Tail(a), Tail(b))

RECURSIVE OrderByName(_)
OrderByName(names) ==
    IF names = {} THEN <<>>
    ELSE LET first == CHOOSE n \in names : \A m \in names \ {n} : NameLess(n, m)
         IN  <<first>> \o OrderByName(names \ {first})

(* the rows the SELECT of pg_refdb_iterator returns                        *)
IterSelect(table, rid, glob) ==
    OrderByName({k[2] : k \in {r \in table : /\ r[1] = rid
                                             /\ (glob.null \/ glob.text = <<>>
                                                 \/ PgLike(r[2], LikeOfGlob(glob.text)))}})

pg_refdb_iterator(table, rid, glob, fails) ==
    IF fails
    THEN [op |-> "iterator", rc |-> GIT_ERROR, table |-> table, repo |-> rid,
          glob |-> glob, result |-> <<>>, current |-> 0, total |-> 0, out |-> <<>>]
    ELSE LET res == IterSelect(table, rid, glob) IN
         [op |-> "iterator", rc |-> GIT_OK, table |-> table, repo |-> rid,
          glob |-> glob, result |-> res, current |-> 0, total |-> Len(res), out |-> <<>>]

pg_refdb_iter_next_name(iter) ==
    IF iter.current >= iter.total THEN [iter EXCEPT !.rc = GIT_ITEROVER]
    ELSE [iter EXCEPT !.rc = GIT_OK, !.current = @ + 1,
                      !.out = Append(@, iter.result[iter.current + 1])]

(* ---------------------------------------------------------------------- *)
(* SpecIter: an iterator is created over any table and glob, read to its   *)
(* end and freed                                                           *)
(* ---------------------------------------------------------------------- *)
OnlyCall == UNCHANGED <<refs, reflog, logseq, tx, tokens, ses, objects, ocall, helper>>

IterNew ==
    \E table \in IterTables, rid \in RepoIds, glob \in IterGlobs, fails \in BOOLEAN :
        /\ fcall = IdleCall
        /\ fcall' = pg_refdb_iterator(table, rid, glob, fails)
        /\ OnlyCall

IterNext ==
    /\ fcall.op = "iterator" /\ fcall.rc = GIT_OK
    /\ fcall' = pg_refdb_iter_next_name(fcall)
    /\ OnlyCall

IterFree ==
    /\ fcall.op = "iterator"
    /\ fcall' = IdleCall
    /\ OnlyCall

NextIter == IterNew \/ IterNext \/ IterFree

SpecIter == Init /\ [][NextIter]_vars

(* ---------------------------------------------------------------------- *)
(* SpecCursor: an open iterator is read with next and next_name while the  *)
(* refs table changes under it                                             *)
(* ---------------------------------------------------------------------- *)
(* PQgetlength of a bytea column of n bytes in a text-format result: the   *)
(* server prints \x and two hex digits per byte                            *)
PQgetlength_text(n) == 2 + 2 * n

(* ref_from_result on a row of the iterator's result, which is asked for   *)
(* in text format: a row with an oid is a direct ref                       *)
ref_from_result(direct) ==
    IF direct
    THEN LET len == PQgetlength_text(GIT_OID_SHA1_SIZE)
         IN  IF len # GIT_OID_SHA1_SIZE THEN GIT_ERROR ELSE GIT_OK
    ELSE GIT_OK

pg_refdb_iter_next_requery(iter) ==
    LET res == IterSelect(iter.now, iter.repo, iter.glob) IN
    IF iter.current >= Len(res) THEN [iter EXCEPT !.rc = GIT_ITEROVER]
    ELSE IF ref_from_result(res[iter.current + 1] \in iter.direct) < 0
         THEN [iter EXCEPT !.rc = GIT_ERROR]
    ELSE [iter EXCEPT !.rc = GIT_OK, !.current = @ + 1,
                      !.out = Append(@, res[iter.current + 1])]

pg_refdb_iter_next(iter) ==
    IF iter.current >= iter.total THEN [iter EXCEPT !.rc = GIT_ITEROVER]
    ELSE IF ref_from_result(iter.result[iter.current + 1] \in iter.direct) < 0
         THEN [iter EXCEPT !.rc = GIT_ERROR]
    ELSE [iter EXCEPT !.rc = GIT_OK, !.current = @ + 1,
                      !.out = Append(@, iter.result[iter.current + 1])]

(* the tables that hold rows of one repository only, named _, a, aa, ...   *)
CursorNames == {n \in IterNames : n = <<"_">> \/ \A i \in 1..Len(n) : n[i] = "a"}
CursorTables(rid) == {t \in SUBSET ({rid} \X CursorNames) : Cardinality(t) <= MaxRows}

(* the table after one committed write, delete or rename of a ref          *)
TablesAfter(table, rid) ==
    {t \in CursorTables(rid) :
        \/ \E k \in t : t \ {k} = table /\ k \notin table
        \/ \E k \in table : table \ {k} = t
        \/ \E k \in table, n \in t : k \notin t /\ n \notin table
                                     /\ table \ {k} = t \ {n}}

(* ghosts: now is the table as it is, direct the rows of the result that   *)
(* hold an oid, over whether GIT_ITEROVER has been returned, by the        *)
(* function that yielded each row                                          *)
CursorNew ==
    \E rid \in RepoIds : \E table \in CursorTables(rid) :
        LET it == pg_refdb_iterator(table, rid, GlobArg(TRUE, <<>>), FALSE)
        IN  \E direct \in SUBSET {it.result[i] : i \in 1..it.total} :
                /\ fcall = IdleCall
                /\ fcall' = it @@ [now |-> table, direct |-> direct, over |-> FALSE,
                                   by |-> <<>>]
                /\ OnlyCall

CursorDone(it, fn) ==
    /\ fcall' = [it EXCEPT !.over = @ \/ it.rc = GIT_ITEROVER,
                           !.by = IF it.rc = GIT_OK THEN Append(@, fn) ELSE @]
    /\ OnlyCall

CursorNext == fcall.op = "iterator" /\ CursorDone(pg_refdb_iter_next(fcall), "next")

CursorNextName ==
    fcall.op = "iterator" /\ CursorDone(pg_refdb_iter_next_name(fcall), "next_name")

(* another session commits a write, a delete or a rename                   *)
CursorTableChange ==
    /\ fcall.op = "iterator"
    /\ \E t \in TablesAfter(fcall.now, fcall.repo) : fcall' = [fcall EXCEPT !.now = t]
    /\ OnlyCall

NextCursor ==
    \/ CursorNew
    \/ CursorNext
    \/ CursorNextName
    \/ CursorTableChange
    \/ IterFree

SpecCursor == Init /\ [][NextCursor]_vars

(* ---------------------------------------------------------------------- *)
(* git_oid_in, git_oid_out: strings as sequences of character codes        *)
(* ---------------------------------------------------------------------- *)
hex_to_nibble_lower(c) ==
    IF c >= 48 /\ c <= 57 THEN c - 48
    ELSE IF c >= 97 /\ c <= 102 THEN c - 97 + 10
    ELSE -1
hex_to_nibble(c) ==
    IF c >= 48 /\ c <= 57 THEN c - 48
    ELSE IF c >= 97 /\ c <= 102 THEN c - 97 + 10
    ELSE IF c >= 65 /\ c <= 70 THEN c - 65 + 10
    ELSE -1

(* "0123456789abcdef"[n & 0xf]                                             *)
nibble_to_hex(n) ==
    LET d == n % 16 IN IF d < 10 THEN 48 + d ELSE 97 + d - 10

CodecResult(ok, oid) == [ok |-> ok, oid |-> oid]

git_oid_in(str) ==
    IF Len(str) # GIT_OID_SHA1_HEXSIZE THEN CodecResult(FALSE, <<>>)
    ELSE LET hi(i) == hex_to_nibble(str[2 * i - 1])
             lo(i) == hex_to_nibble(str[2 * i])
         IN  IF \E i \in 1..GIT_OID_SHA1_SIZE : hi(i) < 0 \/ lo(i) < 0
             THEN CodecResult(FALSE, <<>>)
             ELSE CodecResult(TRUE, [i \in 1..GIT_OID_SHA1_SIZE |-> hi(i) * 16 + lo(i)])

git_oid_out(oid) ==
    [j \in 1..GIT_OID_SHA1_HEXSIZE |->
        LET b == oid[(j + 1) \div 2]
        IN  IF j % 2 = 1 THEN nibble_to_hex(b \div 16) ELSE nibble_to_hex(b % 16)]

(* ---------------------------------------------------------------------- *)
(* SpecCodec: git_oid_out of any oid, git_oid_in of any string and of the  *)
(* output of git_oid_out                                                   *)
(* ---------------------------------------------------------------------- *)
(* the characters at the edges of the three ranges of hex_to_nibble        *)
CodecChars == {47, 48, 57, 58, 64, 65, 70, 71, 96, 97, 102, 103}
CodecBytes == {0, 9, 10, 15, 16, 127, 128, 255}

(* a sequence of length n: part at its start or its end, fill elsewhere    *)
Padded(part, n, fill, atEnd) ==
    IF Len(part) >= n THEN SubSeq(part, 1, n)
    ELSE IF atEnd THEN [i \in 1..(n - Len(part)) |-> fill] \o part
    ELSE part \o [i \in 1..(n - Len(part)) |-> fill]

CodecLens ==
    {0, 1, GIT_OID_SHA1_HEXSIZE - 1, GIT_OID_SHA1_HEXSIZE, GIT_OID_SHA1_HEXSIZE + 1}

CodecStrings ==
    {Padded(a[1], a[2], 48, a[3]) :
        a \in Strings(CodecChars, MaxHex) \X CodecLens \X BOOLEAN}

CodecOids ==
    {Padded(a[1], GIT_OID_SHA1_SIZE, 0, a[2]) :
        a \in Strings(CodecBytes, MaxHex) \X BOOLEAN}

OidOut ==
    \E oid \in CodecOids :
        /\ fcall = IdleCall
        /\ fcall' = [op |-> "git_oid_out", oid |-> oid, str |-> git_oid_out(oid)]
        /\ OnlyCall

OidIn ==
    \E str \in CodecStrings :
        /\ fcall = IdleCall
        /\ fcall' = [op |-> "git_oid_in", str |-> str, res |-> git_oid_in(str)]
        /\ OnlyCall

(* the text git_oid_out printed is read back                               *)
OidInOfOut ==
    /\ fcall.op = "git_oid_out"
    /\ fcall' = [op |-> "git_oid_in", str |-> fcall.str, res |-> git_oid_in(fcall.str)]
    /\ OnlyCall

CallReturn ==
    /\ fcall # IdleCall
    /\ fcall' = IdleCall
    /\ OnlyCall

NextCodec == OidOut \/ OidIn \/ OidInOfOut \/ CallReturn

SpecCodec == Init /\ [][NextCodec]_vars

(* ---------------------------------------------------------------------- *)
(* git_tree_entries_c: the content as a sequence of bytes, positions       *)
(* counted from 0 as in the code                                           *)
(* ---------------------------------------------------------------------- *)
SpaceByte == 32
NulByte == 0

(* while (p < len && data[p] != byte) p++                                  *)
FindByte(data, from, byte) ==
    LET hits == {p \in from..(Len(data) - 1) : data[p + 1] = byte}
    IN  IF hits = {} THEN Len(data)
        ELSE CHOOSE p \in hits : \A q \in hits : p <= q

(* "Need at least 20 bytes after the null for the OID"                     *)
TruncatedOid_short(null_pos, len) == null_pos + GIT_OID_SHA1_SIZE > len
TruncatedOid(null_pos, len) ==
    null_pos + GIT_OID_SHA1_SIZE >= len /\ null_pos + GIT_OID_SHA1_SIZE + 1 > len

(* data[from .. from + n - 1]; bytes past the end of the content are not   *)
(* part of the model, the call records that it read them                   *)
Bytes(data, from, n) ==
    SubSeq(data, from + 1, IF from + n <= Len(data) THEN from + n ELSE Len(data))

TreeRow(mode, name, oid) == [mode |-> mode, name |-> name, entry_oid |-> oid]

(* one call of the set-returning function: state is the TreeParseState,    *)
(* rows the rows returned so far                                           *)
git_tree_entries_c(st) ==
    IF st.pos >= st.len THEN [st EXCEPT !.rc = "done"]
    ELSE
    LET space_pos == FindByte(st.data, st.pos, SpaceByte)
        null_pos == FindByte(st.data, space_pos + 1, NulByte)
    IN  IF space_pos >= st.len THEN [st EXCEPT !.rc = "no space found"]
        ELSE IF null_pos >= st.len
             THEN [st EXCEPT !.rc = "no null terminator found"]
        ELSE IF TruncatedOid(null_pos, st.len)
             THEN [st EXCEPT !.rc = "truncated OID", !.null_pos = null_pos]
        ELSE [st EXCEPT
                !.rc = "row",
                !.null_pos = null_pos,
                !.past = @ \/ null_pos + GIT_OID_SHA1_SIZE + 1 > st.len,
                !.rows = Append(@, TreeRow(Bytes(st.data, st.pos, space_pos - st.pos),
                                           Bytes(st.data, space_pos + 1,
                                                 null_pos - space_pos - 1),
                                           Bytes(st.data, null_pos + 1,
                                                 GIT_OID_SHA1_SIZE))),
                !.pos = null_pos + GIT_OID_SHA1_SIZE + 1]

TreeParseState(data) ==
    [op |-> "git_tree_entries_c", data |-> data, len |-> Len(data), pos |-> 0,
     rc |-> "first", null_pos |-> 0, past |-> FALSE, rows |-> <<>>]

(* ---------------------------------------------------------------------- *)
(* SpecTree: the parser called row by row on contents of at most MaxTree   *)
(* entries, the last of them cut or malformed in every way                 *)
(* ---------------------------------------------------------------------- *)
ModeByte == 49
NameByte == 97
OidFills == {NulByte, SpaceByte, 7}

(* mode, space, name, NUL and n bytes of oid, each part present or not     *)
TreeEntry(e) ==
    (IF e.mode THEN <<ModeByte>> ELSE <<>>)
    \o (IF e.space THEN <<SpaceByte>> ELSE <<>>)
    \o (IF e.name THEN <<NameByte>> ELSE <<>>)
    \o (IF e.nul THEN <<NulByte>> ELSE <<>>)
    \o [i \in 1..e.n |-> e.fill]

WholeEntries ==
    {TreeEntry([mode |-> TRUE, space |-> TRUE, name |-> nm, nul |-> TRUE,
                n |-> GIT_OID_SHA1_SIZE, fill |-> f]) :
        nm \in BOOLEAN, f \in OidFills}

LastEntries ==
    {TreeEntry(e) :
        e \in [mode : BOOLEAN, space : BOOLEAN, name : BOOLEAN, nul : BOOLEAN,
               n : {0, 1, GIT_OID_SHA1_SIZE - 1, GIT_OID_SHA1_SIZE,
                    GIT_OID_SHA1_SIZE + 1},
               fill : OidFills]}

RECURSIVE TreeContents(_)
TreeContents(n) ==
    IF n = 1 THEN LastEntries
    ELSE TreeContents(n - 1)
         \cup {w \o c : w \in WholeEntries, c \in TreeContents(n - 1)}

TreeStart ==
    \E data \in TreeContents(MaxTree) :
        /\ fcall = IdleCall
        /\ fcall' = TreeParseState(data)
        /\ OnlyCall

TreeCall ==
    /\ fcall.op = "git_tree_entries_c"
    /\ fcall.rc \in {"first", "row"}
    /\ fcall' = git_tree_entries_c(fcall)
    /\ OnlyCall

NextTree == TreeStart \/ TreeCall \/ CallReturn

SpecTree == Init /\ [][NextTree]_vars

(* ---------------------------------------------------------------------- *)
(* git_object_hash_c                                                       *)
(* ---------------------------------------------------------------------- *)
HashResult(rc, oid) == [rc |-> rc, oid |-> oid]

(* the switch raises "invalid git object type" in its default branch; the  *)
(* header is "%s %d" of the type name and the content length, and its NUL  *)
git_object_hash_c(type, content) ==
    LET type_name == git_type_name(type)
        content_len == Len(content)
    IN  IF type \notin {1, 2, 3, 4} THEN HashResult(GIT_ERROR, NullOid)
        ELSE HashResult(GIT_OK, Sha1(type_name, content_len, content))

(* ---------------------------------------------------------------------- *)
(* SpecHash: the two hashers and the SQL writer called with any type code  *)
(* ---------------------------------------------------------------------- *)
HashTypes == 0..5

HashC ==
    \E type \in HashTypes, content \in Contents :
        /\ fcall = IdleCall
        /\ fcall' = [op |-> "git_object_hash_c", type |-> type, content |-> content,
                     res |-> git_object_hash_c(type, content)]
        /\ OnlyCall

(* the SQL function raises nothing: its result is the digest or NULL       *)
HashSql ==
    \E type \in HashTypes, content \in Contents :
        /\ fcall = IdleCall
        /\ fcall' = [op |-> "git_object_hash", type |-> type, content |-> content,
                     res |-> HashResult(GIT_OK, git_object_hash(type, content))]
        /\ OnlyCall

HashWrite ==
    \E rid \in RepoIds, type \in HashTypes, content \in Contents :
        LET r == git_object_write(objects, rid, type, content)
        IN  /\ ocall = IdleObj
            /\ ObjDone("git_object_write", rid, git_object_hash(type, content),
                       type, content, {}, r, r.oid)

NextHash == HashC \/ HashSql \/ HashWrite \/ ObjReturn \/ CallReturn

SpecHash == Init /\ [][NextHash]_vars

(* ---------------------------------------------------------------------- *)
(* pg_odb_writepack, pg_writepack_append, pg_writepack_commit (its use of  *)
(* the indexer and the directory), pg_writepack_free                       *)
(* ---------------------------------------------------------------------- *)
(* live: the postgres_writepack is allocated; dir: the directory made by   *)
(* mkdtemp exists; indexer: "none", "live" or "freed"; tmpdir: wp->tmpdir  *)
(* is not NULL; pack: the objects appended; commit: "never", "ok" or       *)
(* "failed".  Ghost early: the directory was removed while the indexer     *)
(* was live.                                                               *)
NoWritepack(rid, fail) ==
    [op |-> "writepack", rc |-> GIT_ERROR, fail |-> fail, repo |-> rid, live |-> FALSE,
     dir |-> FALSE, indexer |-> "none", tmpdir |-> FALSE, pack |-> {},
     commit |-> "never", early |-> FALSE, freed |-> FALSE]

(* system("rm -rf '<path>'")                                               *)
rmdir_recursive(wp) ==
    [wp EXCEPT !.dir = FALSE, !.early = @ \/ wp.indexer = "live"]

git_indexer_free(wp) == [wp EXCEPT !.indexer = "freed"]

WritepackFails == {"none", "mkdtemp", "mkdir", "indexer", "calloc", "strdup"}

pg_odb_writepack(rid, fail) ==
    LET w0 == NoWritepack(rid, fail)
        w1 == [w0 EXCEPT !.dir = TRUE]
        w2 == [w1 EXCEPT !.indexer = "live"]
    IN  IF fail = "mkdtemp" THEN w0
        ELSE IF fail = "mkdir" THEN rmdir_recursive(w1)
        ELSE IF fail = "indexer" THEN rmdir_recursive(w1)
        ELSE IF fail = "calloc" THEN rmdir_recursive(git_indexer_free(w2))
        ELSE [w2 EXCEPT !.rc = GIT_OK, !.live = TRUE, !.tmpdir = (fail # "strdup")]

pg_writepack_append(wp, obj) == [wp EXCEPT !.rc = GIT_OK, !.pack = @ \cup {obj}]

(* git_indexer_commit, then the objects of the pack file under tmpdir are  *)
(* copied; with tmpdir NULL the path names no pack file and opening it     *)
(* fails                                                                   *)
WritepackCommitted(wp, objs, fails) ==
    IF fails \/ ~wp.tmpdir \/ ~wp.dir
    THEN [wp |-> [wp EXCEPT !.rc = GIT_ERROR, !.commit = "failed"], objects |-> objs]
    ELSE LET r == pg_writepack_commit(objs, wp.repo, wp.pack)
         IN  [wp |-> [wp EXCEPT !.rc = r.rc,
                                !.commit = IF r.rc = GIT_OK THEN "ok" ELSE "failed"],
              objects |-> r.objects]

pg_writepack_free(wp) ==
    LET w1 == IF wp.indexer = "live" THEN git_indexer_free(wp) ELSE wp
        w2 == IF w1.tmpdir THEN [rmdir_recursive(w1) EXCEPT !.tmpdir = FALSE] ELSE w1
    IN  [w2 EXCEPT !.live = FALSE, !.freed = TRUE]

(* ---------------------------------------------------------------------- *)
(* SpecPack: a writepack is constructed, fed, committed or not, and freed; *)
(* any one step of the constructor failing                                 *)
(* ---------------------------------------------------------------------- *)
OnlyCallObjects == UNCHANGED <<refs, reflog, logseq, tx, tokens, ses, ocall, helper>>

WritepackNew ==
    \E rid \in RepoIds, fail \in WritepackFails :
        /\ fcall = IdleCall
        /\ fcall' = pg_odb_writepack(rid, fail)
        /\ OnlyCall

WritepackAppend ==
    /\ fcall.op = "writepack" /\ fcall.live /\ fcall.commit = "never"
    /\ \E obj \in GitObjects \ fcall.pack : fcall' = pg_writepack_append(fcall, obj)
    /\ OnlyCall

WritepackCommitCall ==
    \E fails \in BOOLEAN :
        LET r == WritepackCommitted(fcall, objects, fails)
        IN  /\ fcall.op = "writepack" /\ fcall.live /\ fcall.commit = "never"
            /\ ObjRoom(r.objects)
            /\ fcall' = r.wp
            /\ objects' = r.objects
            /\ OnlyCallObjects

WritepackFree ==
    /\ fcall.op = "writepack" /\ fcall.live
    /\ fcall' = pg_writepack_free(fcall)
    /\ OnlyCall

WritepackReturn ==
    /\ fcall.op = "writepack" /\ ~fcall.live
    /\ fcall' = IdleCall
    /\ OnlyCall

NextPack ==
    \/ WritepackNew
    \/ WritepackAppend
    \/ WritepackCommitCall
    \/ WritepackFree
    \/ WritepackReturn

SpecPack == Init /\ [][NextPack]_vars

(* ---------------------------------------------------------------------- *)
(* git_object_read_prefix (SQL): "v_prefix_bytes := p_prefix_len / 2",     *)
(* RETURN QUERY of every row whose first v_prefix_bytes bytes are those of *)
(* p_prefix; the function has no RAISE                                     *)
(* ---------------------------------------------------------------------- *)
git_object_read_prefix(objs, p_repo_id, p_prefix, p_prefix_len) ==
    LET v_prefix_bytes == p_prefix_len \div 2
    IN  [rc |-> GIT_OK, rows |-> PgSelectPrefix(objs, p_repo_id, v_prefix_bytes, p_prefix)]

(* ---------------------------------------------------------------------- *)
(* SpecSqlPrefix: objects are stored and looked up by prefix through the   *)
(* SQL function                                                            *)
(* ---------------------------------------------------------------------- *)
SqlReadPrefix ==
    \E rid \in RepoIds, p_prefix \in ShortOids, n \in PrefixLens :
        LET r == git_object_read_prefix(objects, rid, p_prefix, n)
        IN  /\ fcall = IdleCall /\ ocall = IdleObj
            /\ fcall' = [op |-> "git_object_read_prefix", repo |-> rid, oid |-> p_prefix,
                         n |-> n, rc |-> r.rc, rows |-> r.rows]
            /\ OnlyCall

SqlPrefixStore == fcall = IdleCall /\ PrefixStore

NextSqlPrefix ==
    \/ SqlPrefixStore
    \/ SqlReadPrefix
    \/ ObjReturn
    \/ CallReturn

SpecSqlPrefix == Init /\ [][NextSqlPrefix]_vars

(* ---------------------------------------------------------------------- *)
(* SpecCas: two sessions writing one ref, statement by statement          *)
(* ---------------------------------------------------------------------- *)
Other(s) == CHOOSE t \in Sessions : t # s

(* ghost ov: the calls of the two sessions overlap in time                 *)
StartOverlapping(w, s, c) ==
    LET t == Other(s) IN
    IF Running(w, t)
    THEN [Start(w, s, c) EXCEPT !.ses[s].ov = {t}, !.ses[t].ov = {s}]
    ELSE Start(w, s, c)

CasCall(s) ==
    \E force \in BOOLEAN, old \in OldOids, val \in Vals :
        /\ Idle(s)
        /\ SetWorld(StartOverlapping(World, s,
               CallWrite("refs/heads/main", force, old, NullText, FALSE, val, "none")))

Step(s) ==
    /\ Running(World, s)
    /\ ~Blocked(World, s)
    /\ SetWorld(Exec(World, s))

(* a session keeps its result until the other session's call has ended    *)
CasReturn(s) ==
    /\ ses[s].pc = "ret"
    /\ ~Running(World, Other(s))
    /\ ses' = [ses EXCEPT ![s] = IdleSes]
    /\ UNCHANGED <<refs, reflog, logseq, tx, tokens, objects, ocall, helper, fcall>>

NextCas ==
    \/ \E s \in Sessions : CasCall(s)
    \/ \E s \in Sessions : Step(s)
    \/ \E s \in Sessions : CasReturn(s)

SpecCas == Init /\ [][NextCas]_vars

(* ---------------------------------------------------------------------- *)
(* SpecLock: two connections locking and unlocking refs, statement by      *)
(* statement                                                               *)
(* ---------------------------------------------------------------------- *)
LockCall(s) ==
    \E name \in RefNames \ tokens[s] :
        /\ Idle(s)
        /\ SetWorld(Start(World, s, CallLock(name, "none")))

LockUnlockArgs ==
    {<<1, val>> : val \in {DirectRow(MaxOid)}} \cup {<<0, NoRow>>, <<2, NoRow>>}

UnlockCall(s) ==
    \E tok \in tokens[s], a \in LockUnlockArgs :
        /\ Idle(s)
        /\ SetWorld(Start(World, s, CallUnlock(tok, a[1], FALSE, FALSE, a[2], "none")))

LockReturn(s) ==
    /\ ses[s].pc = "ret"
    /\ ses' = [ses EXCEPT ![s] = IdleSes]
    /\ UNCHANGED <<refs, reflog, logseq, tx, tokens, objects, ocall, helper, fcall>>

NextLock ==
    \/ \E s \in Sessions : LockCall(s)
    \/ \E s \in Sessions : UnlockCall(s)
    \/ \E s \in Sessions : Step(s)
    \/ \E s \in Sessions : LockReturn(s)

SpecLock == Init /\ [][NextLock]_vars

(* ---------------------------------------------------------------------- *)
(* SpecUnlock: one connection holding one token at a time; between lock    *)
(* and unlock the application runs SELECT git_ref_update(...) on the       *)
(* connection; any one statement of unlock failing                         *)
(* ---------------------------------------------------------------------- *)
UnlockFails == {"none", "upsert", "reflog", "delete", "dellog", "end"}

HeldStatement ==
    \E name \in RefNames, new \in OldOids, old \in OldOids, force \in BOOLEAN :
        /\ Quiet /\ tokens["s1"] # {}
        /\ SetWorld(Run(Start(World, "s1", CallRefUpdate(name, new, old, force)), "s1"))

ErrUnlock ==
    \E tok \in tokens["s1"], a \in UnlockArgs, fail \in UnlockFails :
        /\ Quiet /\ LogRoom(a[2] /\ a[3])
        /\ SetWorld(Run(Start(World, "s1",
                              CallUnlock(tok, a[1], a[2], a[3], a[4], fail)), "s1"))

NextUnlock ==
    \/ Write
    \/ Lock
    \/ HeldStatement
    \/ ErrUnlock
    \/ Return

SpecUnlock == Init /\ [][NextUnlock]_vars

(* ---------------------------------------------------------------------- *)
(* SpecTxn: one connection locking, unlocking and writing refs, statement *)
(* by statement, any one statement of a call failing                      *)
(* ---------------------------------------------------------------------- *)
TxnLock ==
    \E name \in RefNames \ tokens["s1"] :
        /\ Idle("s1")
        /\ SetWorld(Start(World, "s1", CallLock(name, "none")))

TxnUnlockArgs ==
    {<<1, TRUE, TRUE, val, fail>> : val \in Vals, fail \in {"none", "upsert", "reflog", "end"}}
    \cup {<<0, FALSE, FALSE, NoRow, "none">>, <<2, FALSE, FALSE, NoRow, "none">>}

TxnUnlock ==
    \E tok \in tokens["s1"], a \in TxnUnlockArgs :
        /\ Idle("s1") /\ LogRoom(a[3])
        /\ SetWorld(Start(World, "s1", CallUnlock(tok, a[1], a[2], a[3], a[4], a[5])))

TxnWrite ==
    \E name \in RefNames, val \in Vals, fail \in {"none", "reflog", "commit"} :
        /\ Idle("s1") /\ LogRoom(TRUE)
        /\ SetWorld(Start(World, "s1",
               CallWrite(name, TRUE, NullOid, NullText, TRUE, val, fail)))

TxnStep == Step("s1")

TxnReturn ==
    /\ ses["s1"].pc = "ret"
    /\ ses' = [ses EXCEPT !["s1"] = IdleSes]
    /\ UNCHANGED <<refs, reflog, logseq, tx, tokens, objects, ocall, helper, fcall>>

NextTxn ==
    \/ TxnLock
    \/ TxnUnlock
    \/ TxnWrite
    \/ TxnStep
    \/ TxnReturn

SpecTxn == Init /\ [][NextTxn]_vars

(* ---------------------------------------------------------------------- *)
(* SpecIso: two backends, each bound to its own repository, working on     *)
(* the same database; every call run to its return. A client works on the  *)
(* ref store or on the object store, which share no table                  *)
(* ---------------------------------------------------------------------- *)
(* the repository a connection's backend is bound to                       *)
RepoOf(s) == IF s = "s1" THEN 1 ELSE 2

RefStoreUnused ==
    /\ refs = [k \in Keys |-> NoRow] /\ reflog = EmptyBag
    /\ Quiet /\ \A s \in Sessions : tokens[s] = {}
ObjStoreUnused == objects = {} /\ ocall = IdleObj
NoIterator == fcall = IdleCall

IsoIdle == Quiet /\ ObjStoreUnused /\ NoIterator

IsoRun(s, c) == SetWorld(Run(Start(World, s, [c EXCEPT !.repo = RepoOf(s)]), s))

(* the one backend writes direct refs and the other symbolic ones, which   *)
(* tells the rows of the one repository from the rows of the other         *)
IsoVal(s) == IF s = "s1" THEN DirectRow(MaxOid) ELSE SymRow("HEAD")

IsoWrite ==
    IsoIdle /\ \E s \in Sessions, name \in RefNames, who \in BOOLEAN :
        /\ tokens[s] = {} /\ LogRoom(who)
        /\ IsoRun(s, CallWrite(name, TRUE, NullOid, NullText, who, IsoVal(s), "none"))

IsoDel ==
    IsoIdle /\ \E s \in Sessions, name \in RefNames :
        tokens[s] = {} /\ IsoRun(s, CallDel(name, NullOid, NullText, "none"))

IsoRename ==
    IsoIdle /\ \E s \in Sessions, name \in RefNames, name2 \in RefNames :
        tokens[s] = {} /\ IsoRun(s, CallRename(name, name2, TRUE, "none"))

IsoLock ==
    IsoIdle /\ \E s \in Sessions, name \in RefNames :
        tokens[s] = {} /\ IsoRun(s, CallLock(name, "none"))

IsoUnlock ==
    IsoIdle /\ \E s \in Sessions : \E tok \in tokens[s], success \in 0..2 :
        IsoRun(s, CallUnlock(tok, success, FALSE, FALSE,
                             IF success = 1 THEN IsoVal(s) ELSE NoRow, "none"))

(* the oids of two blobs; pg_odb_write stores what it is given under the   *)
(* oid it is given                                                         *)
IsoOids == {GitObject(3, c).oid : c \in Contents}

IsoOdbWrite ==
    /\ RefStoreUnused /\ NoIterator /\ ocall = IdleObj
    /\ \E rid \in RepoIds, oid \in IsoOids, content \in Contents :
           LET r == pg_odb_write(objects, rid, oid, content, 3)
           IN  ObjDone("pg_odb_write", rid, oid, 3, content, {}, r, oid)

(* pg_odb_read, pg_odb_read_prefix and pg_odb_exists_prefix, with a        *)
(* prefix inside the two bytes of an oid that vary or a full one           *)
IsoLens == (1..4) \cup {GIT_OID_SHA1_HEXSIZE}

IsoRead ==
    /\ RefStoreUnused /\ NoIterator /\ ocall = IdleObj
    /\ \E rid \in RepoIds, oid \in IsoOids, n \in IsoLens :
           \/ LET r == pg_odb_read(objects, rid, oid)
              IN  /\ n = GIT_OID_SHA1_HEXSIZE
                  /\ PrefixDone("pg_odb_read", rid, oid, n,
                                PrefixResult(r.rc, NullOid, r.type, r.size, r.content))
           \/ \E out_oid \in {NullOid, oid} :
                  PrefixDone("pg_odb_read_prefix", rid, Truncated(oid, n), n,
                             pg_odb_read_prefix(objects, rid, out_oid, Truncated(oid, n), n))
           \/ PrefixDone("pg_odb_exists_prefix", rid, Truncated(oid, n), n,
                         pg_odb_exists_prefix(objects, rid, Truncated(oid, n), n))

(* table refs with rows of both repositories                               *)
IsoTables == {t \in SUBSET (RepoIds \X CursorNames) : Cardinality(t) <= MaxRows}

IsoIterate ==
    /\ RefStoreUnused /\ ObjStoreUnused /\ NoIterator
    /\ \E rid \in RepoIds, table \in IsoTables, glob \in IterGlobs :
           fcall' = pg_refdb_iterator(table, rid, glob, FALSE)
    /\ OnlyCall

NextIso ==
    \/ IsoWrite
    \/ IsoDel
    \/ IsoRename
    \/ IsoLock
    \/ IsoUnlock
    \/ Return
    \/ IsoOdbWrite
    \/ IsoRead
    \/ ObjReturn
    \/ IsoIterate
    \/ IterFree

SpecIso == Init /\ [][NextIso]_vars

(* ---------------------------------------------------------------------- *)
(* SpecPushObj: push blocks against a local repository whose refs name     *)
(* objects it holds                                                        *)
(* ---------------------------------------------------------------------- *)
(* a src is empty, a name that does not resolve, a local ref (which        *)
(* resolves to an object of the local repository) or 40 hex digits (which  *)
(* git_oid_fromstr accepts whether or not they name an object)             *)
ObjPushSrcs(local) ==
    {PushSrc("empty", NullOid), PushSrc("bad", NullOid)}
    \cup {PushSrc("ref", o.oid) : o \in local}
    \cup {PushSrc("hex", o) : o \in IsoOids}
ObjPushLines(local) ==
    {push_spec(src, dst, force) : src \in ObjPushSrcs(local), dst \in RefNames,
                                  force \in BOOLEAN}

PushObjects ==
    /\ Quiet
    /\ \E local \in LocalOdbs :
           \E specs \in UNION {[1..n -> ObjPushLines(local)] : n \in 1..MaxPush} :
               SetWorld(Run(Start(World, "s2", CallPush(specs, local, "none")), "s2"))

NextPushObj ==
    \/ PushObjects
    \/ Return

SpecPushObj == Init /\ [][NextPushObj]_vars

(* ---------------------------------------------------------------------- *)
(* Claims on pg_refdb_write (Spec)                                         *)
(* ---------------------------------------------------------------------- *)
Returned(s, op) == ses[s].pc = "ret" /\ ses[s].op = op

(* the step in which a call of op by s1 ran from entry to return           *)
Called(op) == Idle("s1") /\ Returned("s1", op)'

Call1 == ses["s1"]
Key1 == <<ses["s1"].repo, ses["s1"].name>>

HasExpected(c) == c.old # NullOid \/ c.oldt # NullText

(* the current value is exactly the expected one                           *)
Matches(row, c) ==
    /\ row.ex
    /\ c.old # NullOid => row.oid = c.old
    /\ c.oldt # NullText => row.symbolic = c.oldt

TablesUnchanged == refs' = refs /\ reflog' = reflog

CasWrite == Called("write") /\ ~Call1'.force /\ HasExpected(Call1')

(* C2 as stated: a non-forced write with an expected old value fails with  *)
(* the value-changed code (GIT_EEXISTS) and leaves refs and reflog alone   *)
(* whenever the ref is absent or its value is not the expected one, and    *)
(* succeeds only when the value matches.                                   *)
C2_Original ==
    [][CasWrite =>
         IF Matches(refs[Key1'], Call1')
         THEN TRUE
         ELSE Call1'.rc = GIT_EEXISTS /\ TablesUnchanged]_vars

(* C2 amended: a non-forced write with an expected old value fails and     *)
(* leaves refs and reflog as they were whenever the ref is absent          *)
(* (GIT_ENOTFOUND), is of the other kind (-1) or holds another value       *)
(* (GIT_EEXISTS); it succeeds only when the current value matches.         *)
C2_CasWrite ==
    [][CasWrite =>
         LET cur == refs[Key1']
             c == Call1'
         IN  IF Matches(cur, c)
             THEN c.rc = GIT_OK /\ refs'[Key1'] = c.val
             ELSE /\ TablesUnchanged
                  /\ c.rc = IF ~cur.ex THEN GIT_ENOTFOUND
                            ELSE IF (c.old # NullOid /\ cur.oid = NullOid)
                                    \/ (c.oldt # NullText /\ cur.symbolic = NullText)
                                 THEN GIT_ERROR
                                 ELSE GIT_EEXISTS]_vars

C2_Witness ==
    /\ Returned("s1", "write") /\ ~Call1.force /\ HasExpected(Call1)
    /\ Call1.rc = GIT_EEXISTS /\ refs[Key1].ex

(* C3: a non-forced write without an expected old value creates the ref    *)
(* when the name is free and fails with GIT_EEXISTS, refs and reflog       *)
(* unchanged, when a ref of that name (direct or symbolic) exists.         *)
C3_CreateOnly ==
    [][(Called("write") /\ ~Call1'.force /\ ~HasExpected(Call1')) =>
         IF refs[Key1'].ex
         THEN Call1'.rc = GIT_EEXISTS /\ TablesUnchanged
         ELSE Call1'.rc = GIT_OK /\ refs'[Key1'] = Call1'.val]_vars

C3_Witness ==
    /\ Returned("s1", "write") /\ ~Call1.force /\ ~HasExpected(Call1)
    /\ Call1.rc = GIT_EEXISTS /\ refs[Key1].ex /\ refs[Key1].symbolic # NullText

(* the scenario of the specification: create at A, update A -> B, update   *)
(* with the wrong old value C, the same update forced                      *)
ScenarioCodes ==
    LET main == "refs/heads/main"
        run(w, force, old, new) ==
            Run(Start(w, "s1", CallWrite(main, force, old, NullText, FALSE,
                                         DirectRow(new), "none")), "s1")
        idle(w) == [w EXCEPT !.ses["s1"] = IdleSes]
        w0 == [World EXCEPT !.refs = [k \in Keys |-> NoRow]]
        w1 == run(w0, FALSE, NullOid, 1)
        w2 == run(idle(w1), FALSE, 1, 2)
        w3 == run(idle(w2), FALSE, 3, 4)
        w4 == run(idle(w3), TRUE, 3, 4)
    IN  <<w1.ses["s1"].rc, w2.ses["s1"].rc, w3.ses["s1"].rc, w4.ses["s1"].rc,
          pg_refdb_lookup(w3, "s1", 1, main).oid, pg_refdb_lookup(w4, "s1", 1, main).oid>>

(* C4: a forced write succeeds whatever the ref's state and whatever       *)
(* expected value is passed, lookup then returns the written value, and    *)
(* the create / update / wrong-old / forced scenario gives success,        *)
(* success, value-changed, success.                                        *)
C4_ForcedWrite ==
    [][(Called("write") /\ Call1'.force) =>
         /\ Call1'.rc = GIT_OK
         /\ (pg_refdb_lookup(World, "s1", Call1.repo, Call1.name))' = Call1'.val
         /\ ScenarioCodes = <<GIT_OK, GIT_OK, GIT_EEXISTS, GIT_OK, 2, 4>>]_vars

C4_Witness ==
    /\ Returned("s1", "write") /\ Call1.force /\ Call1.rc = GIT_OK
    /\ Call1.oldt # NullText /\ Call1.val.oid # NullOid
    /\ refs[Key1] = Call1.val

(* ---------------------------------------------------------------------- *)
(* Claims on the object store (SpecObj)                                    *)
(* ---------------------------------------------------------------------- *)
ValidType(t) == t \in 1..4

(* C9: a write of (type, content), type one of the four object types,      *)
(* through git_object_write or pg_odb_write always succeeds, returns the   *)
(* hash of (type, content) each time, leaves exactly one row for           *)
(* (repo_id, oid), and is a no-op when the row was already there.          *)
C9_WriteIdempotent ==
    [][(ocall'.op \in {"git_object_write", "pg_odb_write"} /\ ocall = IdleObj
        /\ ValidType(ocall'.type)) =>
         LET c == ocall'
         IN  /\ c.rc = GIT_OK
             /\ c.op = "git_object_write" =>
                    c.out = c.oid /\ c.out = Sha1(git_type_name(c.type),
                                                  Len(c.content), c.content)
             /\ Cardinality(RowsAt(objects', c.repo, c.oid)) = 1
             /\ RowsAt(objects, c.repo, c.oid) # {} => objects' = objects
             /\ LET again == git_object_write(objects', c.repo, c.type, c.content)
                    wagain == pg_odb_write(objects', c.repo, c.oid, c.content, c.type)
                IN  IF c.op = "git_object_write"
                    THEN again = [rc |-> GIT_OK, oid |-> c.out, objects |-> objects']
                    ELSE wagain = [rc |-> GIT_OK, objects |-> objects']]_vars

C9_Witness ==
    /\ ocall.op = "git_object_write" /\ ocall.had /\ ocall.rc = GIT_OK
    /\ ocall.out = ocall.oid
    /\ Cardinality(RowsAt(objects, ocall.repo, ocall.oid)) = 1

(* C10: a row of objects, once there, stays as it is in every later step:  *)
(* read of its oid keeps returning its type, size and content.             *)
C10_Immutable ==
    [][\A r \in objects :
         /\ r \in objects'
         /\ pg_odb_read(objects', r.repo_id, r.oid) =
                [rc |-> GIT_OK, type |-> r.type, size |-> r.size,
                 content |-> r.content]]_vars

C10_Witness ==
    /\ ocall.op = "pg_odb_write" /\ ocall.had /\ ocall.rc = GIT_OK
    /\ \E r \in RowsAt(objects, ocall.repo, ocall.oid) :
           r.content # ocall.content /\ r.type # ocall.type

(* ---------------------------------------------------------------------- *)
(* Claims on the rows of refs (SpecRefs)                                   *)
(* ---------------------------------------------------------------------- *)
Returned2(op) == ses["s2"].pc = "ret" /\ ses["s2"].op = op

RefsXor == \A k \in Keys : refs[k].ex => (refs[k].oid = NullOid) # (refs[k].symbolic = NullText)

(* the row k went from direct to symbolic or back in this step             *)
KindChanged(k) ==
    /\ refs[k].ex /\ refs'[k].ex
    /\ (refs[k].oid = NullOid) # (refs'[k].oid = NullOid)

(* C5: after every operation of the ref store every row of refs has        *)
(* exactly one of oid and symbolic non-null, and a row that changes from   *)
(* direct to symbolic or back has its other column cleared.                *)
C5_RefsXor ==
    [][/\ RefsXor'
       /\ \A k \in Keys : KindChanged(k) =>
              IF refs'[k].oid = NullOid
              THEN refs'[k].symbolic # NullText /\ refs[k].symbolic = NullText
              ELSE refs'[k].symbolic = NullText /\ refs[k].symbolic # NullText]_vars

(* a write that expected an oid has made the direct ref symbolic           *)
C5_Witness ==
    /\ Returned("s1", "write") /\ ~Call1.force /\ Call1.old # NullOid
    /\ Call1.rc = GIT_OK /\ Call1.val.symbolic # NullText
    /\ refs[Key1] = SymRow(Call1.val.symbolic)
    /\ RefsXor

(* C6 as stated: no row of refs holds the all-zero oid.                    *)
C6_NoZeroOid == \A k \in Keys : refs[k].oid # ZeroOid

(* the reflog rows this step added                                         *)
RowsAdded == {r \in BagToSet(reflog') : CopiesIn(r, reflog') > CopiesIn(r, reflog)}

(* the ref is absent or direct with an oid other than the zero oid         *)
Plain(row) == row.symbolic = NullText /\ row.oid # ZeroOid

(* C8 as stated, for direct refs: a reflog row written by write or unlock  *)
(* has old_oid null exactly when the ref did not exist before the update,  *)
(* new_oid null exactly when it does not exist after it, and old_oid is    *)
(* the previous value of a ref that existed.                               *)
C8_ReflogEndpoints ==
    [][(Called("write") \/ Called("unlock")) =>
         \A r \in RowsAdded :
             LET k == <<r.repo_id, r.ref_name>> IN
             (Plain(refs[k]) /\ Plain(refs'[k])) =>
                 /\ (r.old_oid = NullOid) <=> ~refs[k].ex
                 /\ (r.new_oid = NullOid) <=> ~refs'[k].ex
                 /\ refs[k].ex => r.old_oid = refs[k].oid]_vars

(* ---------------------------------------------------------------------- *)
(* Claims on concurrent writes (SpecCas)                                   *)
(* ---------------------------------------------------------------------- *)
Call2 == ses["s2"]

(* both sessions have ended overlapping non-forced writes of one ref with  *)
(* the same expected old_oid                                               *)
BothCas ==
    /\ Returned("s1", "write") /\ Returned("s2", "write")
    /\ "s2" \in Call1.ov /\ "s1" \in Call2.ov
    /\ ~Call1.force /\ ~Call2.force
    /\ Call1.name = Call2.name
    /\ Call1.old # NullOid /\ Call1.old = Call2.old

(* C1 as stated: two concurrent non-forced writes of one ref with the same *)
(* expected old_oid never both succeed, and when one succeeds the other    *)
(* fails with the value-changed code.                                      *)
C1_Original ==
    BothCas =>
        /\ ~(Call1.rc = GIT_OK /\ Call2.rc = GIT_OK)
        /\ Call1.rc = GIT_OK => Call2.rc = GIT_EEXISTS
        /\ Call2.rc = GIT_OK => Call1.rc = GIT_EEXISTS

LoserCode(winner) == IF winner.val.oid = NullOid THEN GIT_ERROR ELSE GIT_EEXISTS

(* C1 amended: two concurrent non-forced writes of one ref with the same   *)
(* expected old_oid, neither of them writing old_oid again as the new      *)
(* value, never both succeed; when one succeeds the other fails, with      *)
(* GIT_EEXISTS if the winner wrote an oid and with -1 if it wrote a        *)
(* symbolic target.                                                        *)
C1_CasLinearisable ==
    (BothCas /\ Call1.val.oid # Call1.old /\ Call2.val.oid # Call2.old) =>
        /\ ~(Call1.rc = GIT_OK /\ Call2.rc = GIT_OK)
        /\ Call1.rc = GIT_OK => Call2.rc = LoserCode(Call1)
        /\ Call2.rc = GIT_OK => Call1.rc = LoserCode(Call2)

C1_Witness ==
    /\ BothCas
    /\ Call1.rc = GIT_OK /\ Call1.val.oid \notin {NullOid, Call1.old}
    /\ Call2.rc = GIT_EEXISTS /\ Call2.val.oid # Call2.old
    /\ refs[Key1] = Call1.val

(* ---------------------------------------------------------------------- *)
(* Claims on the reflog and the lock transaction (SpecTxn)                 *)
(* ---------------------------------------------------------------------- *)
(* the call of s produces a reflog row with its ref update                 *)
LogsUpdate(c) ==
    \/ c.op = "write" /\ c.who
    \/ c.op = "unlock" /\ c.success = 1 /\ c.upd /\ c.who

(* C7 as stated: at every moment the ref change of a write with signature  *)
(* or of an unlock with disposition write is committed if and only if its  *)
(* reflog row is.                                                          *)
C7_ReflogAtomic ==
    \A s \in Sessions : LogsUpdate(ses[s]) => (ses[s].cRef <=> ses[s].cLog)

(* ---------------------------------------------------------------------- *)
(* Claims on the rows of objects (SpecObj)                                 *)
(* ---------------------------------------------------------------------- *)
(* oid = SHA1("<type-name> <size>\0<content>") and size = length(content) *)
HashOk(r) ==
    /\ ValidType(r.type)
    /\ r.size = Len(r.content)
    /\ r.oid = Sha1(git_type_name(r.type), r.size, r.content)

(* C11 as stated: every row of objects has oid = SHA1("<type-name> <size>  *)
(* \0<content>") and size = length(content).                               *)
C11_Original == \A r \in objects : HashOk(r)

(* the call computed the oid itself, or was handed the hash of its data    *)
HashedCall(c) ==
    \/ c.op \in {"git_object_write", "pg_writepack_commit"}
    \/ /\ c.op = "pg_odb_write"
       /\ ValidType(c.type)
       /\ c.oid = Sha1(git_type_name(c.type), Len(c.content), c.content)

(* C11 amended: every row of objects has size = length(content); a row     *)
(* inserted by git_object_write, by a writepack commit or by a             *)
(* pg_odb_write that was handed the hash of its type and data has          *)
(* oid = SHA1("<type-name> <size>\0<content>").                            *)
C11_ObjectRows ==
    [][/\ \A r \in objects' : r.size = Len(r.content)
       /\ HashedCall(ocall') => \A r \in objects' \ objects : HashOk(r)]_vars

C11_Witness ==
    /\ ocall.op = "pg_writepack_commit" /\ ocall.rc = GIT_OK
    /\ \E o \in ocall.pack : o.type = 4 /\ o.content # <<>>
    /\ \A o \in ocall.pack :
           \E r \in RowsAt(objects, ocall.repo, o.oid) : HashOk(r)

(* ---------------------------------------------------------------------- *)
(* Claims on prefix lookup (SpecPrefix)                                    *)
(* ---------------------------------------------------------------------- *)
(* the rows of the repository whose oid agrees with short_oid on its       *)
(* first n hex digits                                                      *)
Agreeing(objs, rid, short_oid, n) ==
    {r \in objs : /\ r.repo_id = rid
                  /\ SubSeq(OidHex(r.oid), 1, n) = SubSeq(OidHex(short_oid), 1, n)}

(* C12 as stated: for a prefix length n in 1..39 read_prefix and           *)
(* exists_prefix return the one object whose oid agrees with the short oid *)
(* on its first n hex digits, fail with GIT_EAMBIGUOUS exactly when more   *)
(* than one stored oid agrees, and with GIT_ENOTFOUND exactly when none    *)
(* does.                                                                   *)
C12_PrefixLookup ==
    (/\ ocall.op \in {"pg_odb_read_prefix", "pg_odb_exists_prefix"}
     /\ ocall.n \in 1..(GIT_OID_SHA1_HEXSIZE - 1)) =>
        LET m == Agreeing(objects, ocall.repo, ocall.oid, ocall.n) IN
        /\ (ocall.rc = GIT_ENOTFOUND) <=> (m = {})
        /\ (ocall.rc = GIT_EAMBIGUOUS) <=> (Cardinality(m) > 1)
        /\ Cardinality(m) = 1 =>
               /\ ocall.rc = GIT_OK
               /\ \E r \in m :
                      /\ ocall.out = r.oid
                      /\ ocall.op = "pg_odb_read_prefix" =>
                             /\ ocall.type = r.type
                             /\ ocall.size = r.size
                             /\ ocall.content = r.content

PushCalled == Idle("s2") /\ Returned2("push")'

(* the push lines of the block and what the helper printed                 *)
PushInput == ses["s2"].specs
PushOutput == ses["s2"].lines
HeadKey == <<ses["s2"].repo, "HEAD">>

StatusLines(out) == SelectSeq(out, LAMBDA l : l.kind \in {"ok", "error"})

(* no later push line of the block names the dst of line i                 *)
LastFor(input, i) == \A j \in (i + 1)..Len(input) : input[j].dst # input[i].dst

(* C16 as stated: a push block prints exactly one status line per push     *)
(* line, "ok <dst>" or "error <dst> <message>", in the order of the push   *)
(* lines and before the one blank line that ends the response; "ok <dst>"  *)
(* is printed only if the row <dst> was upserted or deleted.               *)
C16_PushStatus ==
    [][PushCalled =>
         LET input == PushInput'
             out == PushOutput'
             st == StatusLines(out)
         IN  /\ Len(st) = Len(input)
             /\ \A i \in 1..Len(input) : st[i].name = input[i].dst
             /\ out = st \o <<BlankLine>>
             /\ \A i \in 1..Len(input) :
                    LET k == <<ses'["s2"].repo, input[i].dst>> IN
                    (st[i].kind = "ok" /\ LastFor(input, i)) =>
                        IF input[i].src.kind = "empty"
                        THEN input[i].dst = "HEAD" \/ ~refs'[k].ex
                        ELSE refs'[k] = DirectRow(ResolveSrc(input[i].src).oid)]_vars

(* C17 as stated: after a push block with at least one push line HEAD      *)
(* exists; a HEAD that was missing is created as a symbolic ref to the dst *)
(* of the first push line; a HEAD that existed and is not a pushed dst is  *)
(* left unchanged.                                                         *)
C17_Original ==
    [][(PushCalled /\ Len(PushInput') >= 1) =>
         /\ refs'[HeadKey'].ex
         /\ ~refs[HeadKey'].ex => refs'[HeadKey'] = SymRow(PushInput'[1].dst)
         /\ (refs[HeadKey'].ex /\ \A i \in 1..Len(PushInput') :
                                      PushInput'[i].dst # "HEAD") =>
                refs'[HeadKey'] = refs[HeadKey']]_vars

(* C17 amended: after a push block with at least one push line HEAD        *)
(* exists; a HEAD that was missing is afterwards either the direct ref a   *)
(* push line of the block wrote to HEAD or a symbolic ref to the dst of    *)
(* the first push line; a HEAD that existed and is not a pushed dst is     *)
(* left unchanged.                                                         *)
C17_EnsureHead ==
    [][(PushCalled /\ Len(PushInput') >= 1) =>
         LET input == PushInput' IN
         /\ refs'[HeadKey'].ex
         /\ ~refs[HeadKey'].ex =>
                \/ refs'[HeadKey'] = SymRow(input[1].dst)
                \/ \E i \in 1..Len(input) :
                       /\ input[i].dst = "HEAD"
                       /\ ResolveSrc(input[i].src).resolved
                       /\ refs'[HeadKey'] = DirectRow(ResolveSrc(input[i].src).oid)
         /\ (refs[HeadKey'].ex /\ \A i \in 1..Len(input) : input[i].dst # "HEAD") =>
                refs'[HeadKey'] = refs[HeadKey']]_vars

(* a push of an oid to refs/heads/main has left HEAD a symbolic ref to it  *)
C17_Witness ==
    /\ Returned2("push")
    /\ Len(PushInput) = 1
    /\ PushInput[1].dst = "refs/heads/main" /\ PushInput[1].src.kind = "hex"
    /\ refs[HeadKey] = SymRow("refs/heads/main")
    /\ refs[<<ses["s2"].repo, "refs/heads/main">>].oid = PushInput[1].src.oid

(* C18 as stated, for a push line that was answered and is the last to    *)
(* name its dst: after a block with the line ":<dst>" refs has no row      *)
(* <dst>, whether or not one existed before, and no row that no push line  *)
(* names is removed.                                                       *)
C18_PushDelete ==
    [][PushCalled =>
         LET input == PushInput'
             rid == ses'["s2"].repo
             answered == Len(StatusLines(PushOutput'))
         IN  /\ \A i \in 1..Len(input) :
                    (input[i].src.kind = "empty" /\ LastFor(input, i)
                     /\ i <= answered) =>
                        ~refs'[<<rid, input[i].dst>>].ex
             /\ \A k \in Keys :
                    (refs[k].ex /\ \A i \in 1..Len(input) :
                                       k # <<rid, input[i].dst>>) =>
                        refs'[k].ex]_vars

(* ---------------------------------------------------------------------- *)
(* Claims on the remote helper's loop (SpecHelper, SpecFetch)              *)
(* ---------------------------------------------------------------------- *)
(* the step in which the helper read the line cmd                          *)
ReadStep(cmd) ==
    /\ Reading
    /\ helper'.nin = helper.nin + 1
    /\ helper'.line = cmd

(* the step in which a block's work ran                                    *)
WorkStep ==
    /\ helper.pc \in {"FETCH_WORK", "PUSH_WORK"}
    /\ helper'.works = helper.works + 1

(* C13: a blank line terminates the loop only when read at top level       *)
(* (IDLE); a blank line inside a fetch or push block ends that block, runs *)
(* the block's work exactly once and returns to IDLE; capabilities and     *)
(* list return to IDLE; after a top-level blank line or end-of-stream no   *)
(* further input is consumed and no further output is produced.            *)
C13_HelperLoop ==
    [][/\ (ReadStep("") /\ helper.pc = "IDLE") => helper'.pc = "TERMINATED"
       /\ (ReadStep("") /\ helper.pc = "IN_FETCH_BLOCK") => helper'.pc = "FETCH_WORK"
       /\ (ReadStep("") /\ helper.pc = "IN_PUSH_BLOCK") => helper'.pc = "PUSH_WORK"
       /\ (helper.pc \in {"FETCH_WORK", "PUSH_WORK"} /\ helper' # helper) =>
              WorkStep /\ helper'.pc = "IDLE"
       /\ helper'.pc \in {"IDLE", "TERMINATED"} => helper'.works = helper'.blocks
       /\ (helper.pc = "IDLE" /\ \E c \in {"capabilities", "list", "list for-push"} :
                                     ReadStep(c)) => helper'.pc = "IDLE"
       /\ (helper.pc = "TERMINATED" \/ helper.eof) =>
              helper'.nin = helper.nin /\ helper'.nout = helper.nout]_vars

(* the last line of a response is blank and the line before it is not      *)
OneBlankEnd(resp) ==
    /\ Len(resp) > 0
    /\ resp[Len(resp)] = BlankLine
    /\ Len(resp) > 1 => resp[Len(resp) - 1] # BlankLine

(* C14: each handled command (capabilities, list, one whole fetch block,   *)
(* one whole push block) produces exactly one response that ends with      *)
(* exactly one blank line; capabilities emits exactly the lines fetch,     *)
(* push and a blank line; an unknown command produces no output on         *)
(* standard output and leaves the loop running.                            *)
C14_Framing ==
    [][/\ (helper.pc = "IDLE" /\ ReadStep("capabilities")) =>
              /\ helper'.resp = <<OutLine("cap", NoHex, NullText, "fetch"),
                                  OutLine("cap", NoHex, NullText, "push"), BlankLine>>
              /\ helper'.nout = helper.nout + 3
       /\ ((helper.pc = "IDLE" /\ (ReadStep("list") \/ ReadStep("list for-push")))
           \/ WorkStep) =>
              /\ OneBlankEnd(helper'.resp)
              /\ helper'.nout = helper.nout + Len(helper'.resp)
       /\ (helper.pc = "IDLE" /\ ReadStep("unknown")) =>
              helper'.nout = helper.nout /\ helper'.pc = "IDLE"]_vars

(* the names of the direct refs of the repository other than HEAD, in      *)
(* ascending order                                                         *)
DirectNames(rid) ==
    SelectSeq(NameOrder, LAMBDA n : /\ n # "HEAD"
                                    /\ refs[<<rid, n>>].ex
                                    /\ refs[<<rid, n>>].oid # NullOid)

TargetExists(rid, target) == target \in AllRefNames /\ refs[<<rid, target>>].ex

(* the listing the claim describes for the current table refs              *)
Listing(rid) ==
    LET head == refs[<<rid, "HEAD">>]
        names == DirectNames(rid)
    IN  [i \in 1..Len(names) |->
            OutLine("ref", OidHex(refs[<<rid, names[i]>>].oid), names[i], NullText)]
        \o (IF head.ex /\ head.symbolic # NullText /\ TargetExists(rid, head.symbolic)
            THEN <<OutLine("symref", NoHex, "HEAD", head.symbolic)>>
            ELSE IF head.ex /\ head.oid # NullOid
            THEN <<OutLine("ref", OidHex(head.oid), "HEAD", NullText)>>
            ELSE <<>>)
        \o <<BlankLine>>

(* C15: list / list for-push emits one line "<hex-oid> <name>" for each    *)
(* direct ref other than HEAD, in ascending name order; it emits           *)
(* "@<target> HEAD" exactly when HEAD is symbolic and its target exists,   *)
(* "<hex-oid> HEAD" exactly when HEAD is direct, and no HEAD line          *)
(* otherwise; then one blank line.                                         *)
C15_List ==
    [][(helper.pc = "IDLE" /\ (ReadStep("list") \/ ReadStep("list for-push"))) =>
           helper'.resp = Listing(helper.repo)]_vars

(* the step in which the work of a fetch block ran                         *)
FetchDone == helper.pc = "FETCH_WORK" /\ helper'.pc = "IDLE"

(* the objects the local repository had are still there and the helper     *)
(* did not go on to copy any of them                                       *)
NotRewritten(h) ==
    /\ h.had \subseteq h.local
    /\ \A o \in h.had : o.oid \notin h.asked

HashedRow(r) == r.oid = git_object_hash(r.type, r.content)

C21_RenameSuccess ==
    [][(Called("rename") /\ Call1'.rc = GIT_OK /\ Call1'.name # Call1'.name2) =>
         LET c == Call1'
             kold == <<c.repo, c.name>>
             knew == <<c.repo, c.name2>>
         IN  /\ ~refs'[kold].ex
             /\ RowsOf(reflog', c.repo, c.name) = EmptyBag
             /\ refs'[knew] = refs[kold]
             /\ c.out = refs'[knew]
             /\ RowsOf(reflog', c.repo, c.name2)
                    = Renamed(RowsOf(reflog, c.repo, c.name), c.name2)]_vars

(* the rows of the call's ref: its row of refs and its rows of reflog      *)
RefGone(k) == ~refs'[k].ex /\ RowsOf(reflog', k[1], k[2]) = EmptyBag

(* C22: with an expected old_id or old_target del succeeds only if the ref *)
(* exists and its current value equals the expected one, otherwise it      *)
(* fails (GIT_ENOTFOUND when absent, GIT_EEXISTS on mismatch) and refs and *)
(* reflog are unchanged; after every successful del there is no ref row    *)
(* and no reflog row for that name, and both deletions are committed       *)
(* together or not at all.                                                 *)
C22_Del ==
    [][Called("del") =>
         LET c == Call1'
             k == <<c.repo, c.name>>
         IN  /\ (HasExpected(c) /\ c.rc = GIT_OK) => Matches(refs[k], c)
             /\ (HasExpected(c) /\ ~Matches(refs[k], c)) =>
                    /\ c.rc # GIT_OK
                    /\ c.fail = "none" =>
                           c.rc = IF refs[k].ex THEN GIT_EEXISTS ELSE GIT_ENOTFOUND
             /\ c.rc # GIT_OK => TablesUnchanged
             /\ c.rc = GIT_OK => RefGone(k)
             /\ TablesUnchanged \/ RefGone(k)]_vars

(* ---------------------------------------------------------------------- *)
(* Claims on the advisory ref lock (SpecLock)                              *)
(* ---------------------------------------------------------------------- *)
(* the sessions that hold an outstanding token for the ref name            *)
Holders(name) == {s \in Sessions : name \in tokens[s]}

(* C23: at any time at most one session holds an outstanding lock token    *)
(* for a given (repo_id, ref name): a lock on the same ref by a second     *)
(* session has not returned while the holder's token is outstanding.       *)
C23_LockExclusive == \A name \in RefNames : Cardinality(Holders(name)) <= 1

(* the reflog row an unlock with disposition write adds, as a bag          *)
UnlockLogged(c) ==
    IF c.upd /\ c.who
    THEN One(LogRow(c.repo, c.name, NullOid, ReflogOid(NewOidOf(c.val))))
    ELSE EmptyBag

(* C24: pg_refdb_unlock consumes its token and ends the transaction in     *)
(* every case; discard leaves refs and reflog as they were when the lock   *)
(* was taken, whatever ran on the session since; a successful write        *)
(* commits the ref (and the reflog row asked for with a signature); a      *)
(* successful delete commits the removal of the ref and its reflog rows;   *)
(* an unlock that returns an error commits nothing.                        *)
C24_UnlockDispositions ==
    [][Called("unlock") =>
         LET c == Call1'
             k == <<c.repo, c.name>>
         IN  /\ tokens'["s1"] = tokens["s1"] \ {c.name2}
             /\ tx'["s1"] = IdleTx
             /\ c.success = 0 => TablesUnchanged
             /\ c.rc # GIT_OK => TablesUnchanged
             /\ (c.success = 1 /\ c.rc = GIT_OK) =>
                    /\ refs'[k] = c.val
                    /\ RowsOf(reflog', c.repo, c.name) =
                           RowsOf(reflog, c.repo, c.name) (+) UnlockLogged(c)
             /\ (c.success = 2 /\ c.rc = GIT_OK) => RefGone(k)]_vars

(* ---------------------------------------------------------------------- *)
(* Claims on pg_refdb_iterator (SpecIter)                                  *)
(* ---------------------------------------------------------------------- *)
(* the glob of the claim: * matches any sequence of characters, every      *)
(* other character only itself                                             *)
RECURSIVE GlobMatch(_, _)
GlobMatch(str, glob) ==
    IF glob = <<>> THEN str = <<>>
    ELSE IF Head(glob) = "*"
         THEN \E n \in 0..Len(str) : GlobMatch(Drop(str, n), Tail(glob))
    ELSE str # <<>> /\ Head(str) = Head(glob) /\ GlobMatch(Tail(str), Tail(glob))

(* the names of the repository's refs that match the glob                  *)
Matching(table, rid, glob) ==
    {k[2] : k \in {r \in table : /\ r[1] = rid
                                 /\ (glob.null \/ glob.text = <<>>
                                     \/ GlobMatch(r[2], glob.text))}}

Yielded(it) == {it.result[i] : i \in 1..Len(it.result)}

(* C25: a new iterator holds, in ascending order of name and each once,    *)
(* exactly the refs of the repository whose name matches the glob (every   *)
(* ref for a null or empty glob), and next_name yields them in that order. *)
C25_Iterator ==
    [][/\ (fcall = IdleCall /\ fcall'.op = "iterator" /\ fcall'.rc = GIT_OK) =>
            LET it == fcall' IN
            /\ \A i, j \in 1..Len(it.result) :
                   i < j => NameLess(it.result[i], it.result[j])
            /\ Yielded(it) = Matching(it.table, it.repo, it.glob)
       /\ (fcall.op = "iterator" /\ fcall'.op = "iterator") =>
            /\ fcall'.out = SubSeq(fcall.result, 1, fcall'.current)
            /\ (fcall'.rc = GIT_ITEROVER) = (fcall.current = Len(fcall.result))]_vars

(* ---------------------------------------------------------------------- *)
(* Claims on the OID codec (SpecCodec)                                     *)
(* ---------------------------------------------------------------------- *)
LowerHex == (48..57) \cup (97..102)
AnyHex == LowerHex \cup (65..70)

AllIn(str, chars) == \A i \in 1..Len(str) : str[i] \in chars

ToLower(str) == [i \in 1..Len(str) |-> IF str[i] \in 65..70 THEN str[i] + 32 ELSE str[i]]
ToUpper(str) == [i \in 1..Len(str) |-> IF str[i] \in 97..102 THEN str[i] - 32 ELSE str[i]]

(* C26: git_oid_out prints 40 lower-case hex characters that git_oid_in    *)
(* reads back as the same oid; git_oid_in accepts exactly the strings of   *)
(* 40 characters of [0-9a-fA-F], and the upper-case and the lower-case     *)
(* spelling of a string give the same oid.                                 *)
C26_OidCodec ==
    [][/\ fcall'.op = "git_oid_out" =>
            /\ Len(fcall'.str) = GIT_OID_SHA1_HEXSIZE
            /\ AllIn(fcall'.str, LowerHex)
            /\ git_oid_in(fcall'.str) = CodecResult(TRUE, fcall'.oid)
       /\ (fcall.op = "git_oid_out" /\ fcall'.op = "git_oid_in" /\ fcall'.str = fcall.str) =>
            fcall'.res = CodecResult(TRUE, fcall.oid)
       /\ fcall'.op = "git_oid_in" =>
            /\ fcall'.res.ok =
                   (Len(fcall'.str) = GIT_OID_SHA1_HEXSIZE /\ AllIn(fcall'.str, AnyHex))
            /\ fcall'.res.ok =>
                   /\ Len(fcall'.res.oid) = GIT_OID_SHA1_SIZE
                   /\ git_oid_in(ToLower(fcall'.str)) = fcall'.res
                   /\ git_oid_in(ToUpper(fcall'.str)) = fcall'.res]_vars

(* an upper-case spelling was accepted, and a printed oid was read back    *)
C26_Witness ==
    /\ fcall.op = "git_oid_in"
    /\ fcall.res.ok
    /\ \E i \in 1..Len(fcall.str) : fcall.str[i] \in 65..70
    /\ git_oid_out(fcall.res.oid) = ToLower(fcall.str)

(* ---------------------------------------------------------------------- *)
(* Claims on git_tree_entries_c (SpecTree)                                 *)
(* ---------------------------------------------------------------------- *)
(* the entry at pos has its space and its NUL, at null_pos                 *)
EntryNul(st, null_pos) ==
    LET space_pos == FindByte(st.data, st.pos, SpaceByte)
    IN  /\ st.pos < st.len
        /\ space_pos < st.len
        /\ null_pos = FindByte(st.data, space_pos + 1, NulByte)
        /\ null_pos < st.len

(* C27: git_tree_entries_c returns a row only when the 20 bytes after the  *)
(* entry's NUL lie inside the content (null_pos + 21 <= length), fails     *)
(* with the truncated-OID error whenever fewer than 20 bytes follow the    *)
(* NUL, and never reads past the end of the content.                       *)
C27_TreeOidBound ==
    [][(fcall.op = "git_tree_entries_c" /\ fcall'.op = "git_tree_entries_c") =>
         /\ ~fcall'.past
         /\ fcall'.rc = "row" =>
                /\ EntryNul(fcall, fcall'.null_pos)
                /\ fcall'.null_pos + GIT_OID_SHA1_SIZE + 1 <= fcall.len
                /\ Len(fcall'.rows[Len(fcall'.rows)].entry_oid) = GIT_OID_SHA1_SIZE
         /\ \A p \in 0..fcall.len :
                (EntryNul(fcall, p) /\ fcall.len - p - 1 < GIT_OID_SHA1_SIZE) =>
                    /\ fcall'.rc = "truncated OID"
                    /\ fcall'.rows = fcall.rows]_vars

(* exactly 19 bytes follow the NUL of the second entry                     *)
C27_Witness ==
    /\ fcall.op = "git_tree_entries_c"
    /\ fcall.rc = "truncated OID"
    /\ fcall.len - fcall.null_pos - 1 = GIT_OID_SHA1_SIZE - 1
    /\ Len(fcall.rows) = 1

(* ---------------------------------------------------------------------- *)
(* Claims on the hashers (SpecHash)                                        *)
(* ---------------------------------------------------------------------- *)
Hashed(op) == fcall = IdleCall /\ fcall'.op = op

(* C28: with a type code outside 1..4 the C hasher, the SQL hasher and the *)
(* SQL writer fail, yield no digest and store no row; with a type code in  *)
(* 1..4 the two hashers give the digest of the same pre-image.             *)
C28_InvalidType ==
    [][/\ (Hashed("git_object_hash_c") \/ Hashed("git_object_hash")) =>
            LET c == fcall' IN
            IF ValidType(c.type)
            THEN /\ c.res = HashResult(GIT_OK, Sha1(git_type_name(c.type),
                                                    Len(c.content), c.content))
                 /\ git_object_hash_c(c.type, c.content).oid =
                        git_object_hash(c.type, c.content)
            ELSE c.res.rc # GIT_OK /\ c.res.oid = NullOid
       /\ (ocall = IdleObj /\ ocall'.op = "git_object_write" /\ ~ValidType(ocall'.type)) =>
            /\ ocall'.rc # GIT_OK
            /\ ocall'.out = NullOid
            /\ objects' = objects]_vars

(* ---------------------------------------------------------------------- *)
(* Claims on the error paths (SpecErr)                                     *)
(* ---------------------------------------------------------------------- *)
(* what a successful call must have committed                              *)
Committed(c) ==
    LET k == <<c.repo, c.name>> IN
    CASE c.op = "write" -> refs'[k] = c.val
      [] c.op = "del" -> RefGone(k)
      [] c.op = "rename" ->
           c.name # c.name2 => ~refs'[k].ex /\ refs'[<<c.repo, c.name2>>] = refs[k]

(* C29: a write, rename, del or lock that returns an error has rolled its  *)
(* transaction back: the session is outside a transaction and refs and     *)
(* reflog are as before the call; a write, rename or del that returns      *)
(* success has committed its changes.                                      *)
C29_RollbackOnError ==
    [][\A op \in {"write", "rename", "del", "lock"} :
         Called(op) =>
            /\ Call1'.rc # GIT_OK => tx'["s1"] = IdleTx /\ TablesUnchanged
            /\ (Call1'.rc = GIT_OK /\ op # "lock") =>
                   tx'["s1"] = IdleTx /\ Committed(Call1')]_vars

(* ---------------------------------------------------------------------- *)
(* Claims on the writepack (SpecPack)                                      *)
(* ---------------------------------------------------------------------- *)
(* C30: the directory made by pg_odb_writepack is gone when the            *)
(* constructor has failed and when free has run, whether commit was never  *)
(* called, succeeded or failed; it is never removed while the indexer is   *)
(* live, and it is there as long as the indexer is.                        *)
C30_TmpdirLifecycle ==
    fcall.op = "writepack" =>
        /\ ~fcall.live => ~fcall.dir
        /\ ~fcall.early
        /\ fcall.indexer = "live" => fcall.dir

(* ---------------------------------------------------------------------- *)
(* Claims on git_ref_update (SpecRefs)                                     *)
(* ---------------------------------------------------------------------- *)
(* a call of git_ref_update with force = false and an expected old oid     *)
(* that is neither NULL nor the zero oid                                   *)
RefUpdateCas ==
    /\ Idle("s2")
    /\ Returned("s2", "ref_update")'
    /\ ~ses'["s2"].force
    /\ ~IsSentinel(ses'["s2"].old)

(* C31: git_ref_update with force = false and an expected old oid returns  *)
(* true only if the ref is a direct ref whose oid is the expected one; in  *)
(* every other case (absent, symbolic, another oid) it returns false and   *)
(* leaves table refs unchanged.                                            *)
C31_RefUpdateCas ==
    [][RefUpdateCas =>
         LET c == ses'["s2"]
             cur == refs[<<c.repo, c.name>>]
             match == cur.ex /\ cur.oid = c.old
         IN  /\ c.rc = GIT_OK
             /\ c.out.ex = match
             /\ ~match => refs' = refs]_vars

(* ---------------------------------------------------------------------- *)
(* Claims on git_object_read_prefix (SpecSqlPrefix)                        *)
(* ---------------------------------------------------------------------- *)
(* C32: git_object_read_prefix returns an error and no rows when more than *)
(* one object of the repository agrees with the prefix on its first        *)
(* p_prefix_len hex digits, exactly that object's row when one does, and   *)
(* no row when none does.                                                  *)
C32_SqlPrefix ==
    [][Hashed("git_object_read_prefix") =>
         LET c == fcall'
             m == Agreeing(objects, c.repo, c.oid, c.n)
         IN  /\ Cardinality(m) > 1 => c.rc # GIT_OK /\ c.rows = {}
             /\ Cardinality(m) = 1 => c.rc = GIT_OK /\ c.rows = m
             /\ m = {} => c.rc = GIT_OK /\ c.rows = {}]_vars

(* ---------------------------------------------------------------------- *)
(* Claims on the full-length prefix read (SpecPrefix)                      *)
(* ---------------------------------------------------------------------- *)
(* C33 as stated: pg_odb_read_prefix called with prefix length 40 returns  *)
(* on success the oid of the row that was read in out_oid, together with   *)
(* the row's type, size and content.                                       *)
C33_FullLengthPrefix ==
    (/\ ocall.op = "pg_odb_read_prefix"
     /\ ocall.n = GIT_OID_SHA1_HEXSIZE
     /\ ocall.rc = GIT_OK) =>
        \E r \in RowsAt(objects, ocall.repo, ocall.oid) :
            /\ ocall.out = r.oid
            /\ ocall.type = r.type
            /\ ocall.size = r.size
            /\ ocall.content = r.content

(* ---------------------------------------------------------------------- *)
(* Claims on concurrent creation (SpecCas)                                 *)
(* ---------------------------------------------------------------------- *)
(* both sessions have ended overlapping non-forced writes of one ref that  *)
(* expect no old value                                                     *)
BothCreate ==
    /\ Returned("s1", "write") /\ Returned("s2", "write")
    /\ "s2" \in Call1.ov /\ "s1" \in Call2.ov
    /\ ~Call1.force /\ ~Call2.force
    /\ Call1.name = Call2.name
    /\ ~HasExpected(Call1) /\ ~HasExpected(Call2)

(* C34 as stated: of two concurrent non-forced create-only writes of one   *)
(* ref at most one succeeds and the other fails with GIT_EEXISTS, so the   *)
(* ref of the one is never overwritten by the other.                       *)
C34_ConcurrentCreate ==
    BothCreate =>
        /\ ~(Call1.rc = GIT_OK /\ Call2.rc = GIT_OK)
        /\ Call1.rc = GIT_OK => Call2.rc = GIT_EEXISTS
        /\ Call2.rc = GIT_OK => Call1.rc = GIT_EEXISTS

(* ---------------------------------------------------------------------- *)
(* Claims on the lifetime of a ref lock (SpecLock)                         *)
(* ---------------------------------------------------------------------- *)
(* C35 as stated: a ref lock lasts until its own token is unlocked: as     *)
(* long as a session holds an outstanding token for a ref, whatever else   *)
(* it has locked or unlocked on the connection since, its transaction      *)
(* holds the advisory lock of that ref, so no other session can acquire it.*)
C35_LockLastsUntilUnlock ==
    \A s \in Sessions : \A name \in tokens[s] :
        \E rid \in RepoIds : hash_refname(rid, name) \in tx[s].adv

(* ---------------------------------------------------------------------- *)
(* Claims on the iterator's snapshot (SpecCursor)                          *)
(* ---------------------------------------------------------------------- *)
(* C36: the sequence of an iterator is the result of its query on the      *)
(* table as it was when pg_refdb_iterator returned and never changes,      *)
(* whatever is written, renamed or deleted afterwards; next and next_name  *)
(* move one cursor forward and yield the rows of that sequence in order,   *)
(* each once across both; a call that returns GIT_ITEROVER has yielded the *)
(* whole sequence, and after it every call returns GIT_ITEROVER.           *)
C36_IteratorSnapshot ==
    [][(fcall.op = "iterator" /\ fcall'.op = "iterator") =>
         /\ fcall'.result = IterSelect(fcall.table, fcall.repo, fcall.glob)
         /\ fcall'.result = fcall.result /\ fcall'.total = fcall.total
         /\ fcall'.current >= fcall.current /\ fcall'.current <= fcall.total
         /\ fcall'.out = SubSeq(fcall.result, 1, fcall'.current)
         /\ Len(fcall'.by) = fcall'.current
         /\ fcall'.rc = GIT_ITEROVER => fcall'.out = fcall.result
         /\ fcall.over => fcall'.rc = GIT_ITEROVER]_vars

(* an iterator over two refs has been read to its end with next and        *)
(* next_name after one of its refs was deleted                             *)
C36_Witness ==
    /\ fcall.op = "iterator" /\ fcall.over /\ fcall.rc = GIT_ITEROVER
    /\ fcall.total = 2 /\ fcall.out = fcall.result
    /\ {fcall.by[i] : i \in 1..Len(fcall.by)} = {"next", "next_name"}
    /\ \E i \in 1..fcall.total : <<fcall.repo, fcall.result[i]>> \notin fcall.now

(* ---------------------------------------------------------------------- *)
(* Claims on repository isolation (SpecIso)                                *)
(* ---------------------------------------------------------------------- *)
(* the rows of the other repositories are the same before and after        *)
OthersUnchanged(rid) ==
    /\ \A k \in Keys : k[1] # rid => refs'[k] = refs[k]
    /\ \A r \in RepoIds \ {rid} :
           /\ \A name \in RefNames : RowsOf(reflog', r, name) = RowsOf(reflog, r, name)
           /\ RepoObjects(objects', r) = RepoObjects(objects, r)

(* C37: every call of a backend leaves the objects, refs and reflog rows   *)
(* of the repositories it is not bound to unchanged, and what a read,      *)
(* prefix read, lookup or iterator returns is a row of its own repository, *)
(* also when another repository holds the same oid or the same ref name.   *)
C37_RepoIsolation ==
    [][/\ \A s \in Sessions :
              (Idle(s) /\ ses'[s].pc = "ret") =>
                  /\ OthersUnchanged(ses'[s].repo)
                  /\ (pg_refdb_lookup(World, s, ses[s].repo, ses[s].name)
                          = refs[<<ses[s].repo, ses[s].name>>])'
       /\ (ocall = IdleObj /\ ocall' # IdleObj) =>
              LET c == ocall' IN
              /\ OthersUnchanged(c.repo)
              /\ (c.op # "pg_odb_write" /\ c.rc = GIT_OK) =>
                     \E r \in RepoObjects(objects, c.repo) :
                         /\ Truncated(r.oid, c.n) = c.oid
                         /\ c.op = "pg_odb_exists_prefix" => c.out = r.oid
                         /\ c.op # "pg_odb_exists_prefix" =>
                                /\ c.type = r.type /\ c.size = r.size
                                /\ c.content = r.content
                                /\ c.n < GIT_OID_SHA1_HEXSIZE => c.out = r.oid
       /\ (fcall = IdleCall /\ fcall' # IdleCall) =>
              /\ TablesUnchanged /\ objects' = objects
              /\ \A i \in 1..Len(fcall'.result) :
                     <<fcall'.repo, fcall'.result[i]>> \in fcall'.table]_vars

(* a backend has deleted a ref whose name also names a ref, with a reflog  *)
(* row, in the other repository                                            *)
C37_Witness ==
    \E s \in Sessions :
        LET c == ses[s]  other == RepoOf(Other(s)) IN
        /\ Returned(s, "del") /\ c.rc = GIT_OK
        /\ ~refs[<<c.repo, c.name>>].ex
        /\ refs[<<other, c.name>>].ex
        /\ RowsOf(reflog, other, c.name) # EmptyBag

(* ---------------------------------------------------------------------- *)
(* Claims on the objects behind pushed refs (SpecPushObj)                  *)
(* ---------------------------------------------------------------------- *)
(* C38 as stated: when a push block reports "ok <dst>" for a push line     *)
(* that is not a delete, the oid stored for <dst> at the end of the block  *)
(* names an object that the repository's object store holds.               *)
C38_PushedObjects ==
    [][PushCalled =>
         LET input == PushInput'
             st == StatusLines(PushOutput')
             rid == ses'["s2"].repo
         IN  \A i \in 1..Len(st) :
                 LET row == refs'[<<rid, input[i].dst>>] IN
                 (st[i].kind = "ok" /\ input[i].src.kind # "empty"
                  /\ row.ex /\ row.oid # NullOid) =>
                     pg_odb_exists(objects', rid, row.oid)]_vars

(* ---------------------------------------------------------------------- *)
(* Claims on the HEAD a push creates (SpecRefs)                            *)
(* ---------------------------------------------------------------------- *)
(* C39 as stated: when a push block creates HEAD as a symbolic ref, the    *)
(* ref it points to exists as a direct ref when the block ends.            *)
C39_HeadNotDangling ==
    [][(/\ PushCalled
        /\ ~refs[HeadKey'].ex
        /\ refs'[HeadKey'].ex /\ refs'[HeadKey'].symbolic # NullText) =>
         LET target == refs'[<<ses'["s2"].repo, refs'[HeadKey'].symbolic>>]
         IN  target.ex /\ target.oid # NullOid]_vars

(* ---------------------------------------------------------------------- *)
(* Claims on the force marker of a push line (SpecRefs)                    *)
(* ---------------------------------------------------------------------- *)
(* the block with a leading + on every push line                           *)
Forced(specs) == [i \in 1..Len(specs) |-> [specs[i] EXCEPT !.force = TRUE]]

(* C40: a push block leaves the same refs table and prints the same lines  *)
(* as the block with a leading + on every push line run on the same        *)
(* database, so two blocks that differ only in their force markers leave   *)
(* the same refs table and print the same lines.                           *)
C40_ForceNoEffect ==
    [][PushCalled =>
         LET c == ses'["s2"]
             forced == Run(Start(World, "s2", CallPush(Forced(c.specs), c.local, c.fail)),
                           "s2")
         IN  /\ forced.refs = refs'
             /\ forced.ses["s2"].lines = c.lines]_vars

(* a push line without the marker was answered ok and HEAD holds the oid   *)
(* it pushed                                                               *)
C40_Witness ==
    /\ Returned2("push")
    /\ Len(PushInput) = 1 /\ ~PushInput[1].force
    /\ PushInput[1].src.kind = "ref" /\ PushInput[1].dst = "HEAD"
    /\ StatusLines(PushOutput)[1].kind = "ok"
    /\ refs[HeadKey] = DirectRow(PushInput[1].src.oid)

====
